---- MODULE Spec2Model ----
(***************************************************************************)
(* Memory-management core of the kernel: the heap allocation strategies    *)
(* (bump, free-list, fixed-size-block, stack, buddy), the physical frame   *)
(* allocators and the address-space layer.                                 *)
(*                                                                         *)
(* Addresses are machine words.  usize is scaled from 2^64 to Word so that *)
(* wrap-around of unchecked additions is within reach of exploration; the   *)
(* program's own constants (block sizes, header size, frame size) keep     *)
(* their values.  Heap memory is modelled at the granularity of the 8-byte *)
(* header fields the allocators write into free blocks.                    *)
(***************************************************************************)
EXTENDS Integers, Sequences, FiniteSets, TLC

VARIABLES
    mode,        \* which subsystem this behaviour exercises
    overflow_checks, \* build profile: TRUE = arithmetic overflow panics (debug)
    \* ---- kernel heap: FixedSizeBlockAllocator over LinkedListAllocator
    ll_init,     \* LinkedListAllocatorInner.initialized
    ll_head,     \* LinkedListAllocatorInner.head (0 = None)
    list_heads,  \* FixedSizeBlockAllocatorInner.list_heads (0 = None)
    mem,         \* heap memory words written by the allocators: addr -> value
    hlive,       \* live heap allocations: records [id, addr, size, align]
    hret,        \* what the last heap call did
    hstatus,     \* "ready", "halted" (call never returned), "poisoned"
    \* ---- one BumpAllocator or StackAllocator instance
    akind,       \* "bump" or "stack"
    a_init,      \* initialized (0 / 1)
    a_start,     \* heap_start / start
    a_end,       \* heap_end / end
    a_cur,       \* next / top: the cursor
    a_blocks,    \* blocks handed out and not yet freed, in allocation order
    a_lifo,      \* every free so far released the most recent live block
    a_ret,       \* what the last call on the instance did
    a_status,    \* "ready" or "panicked"
    \* ---- physical frame allocators and boot
    memory_initialized, \* MEMORY_INITIALIZED
    boot_map,    \* boot_info.memory_regions as memory::init read it
    g_start,     \* memory::PHYSICAL_MEMORY_START
    g_end,       \* memory::PHYSICAL_MEMORY_END
    g_next,      \* memory::NEXT_PHYSICAL_FRAME (GlobalFrameAllocator)
    s_next,      \* syscalls::handlers::memory::NEXT_PHYSICAL_FRAME
    f_out,       \* frames handed out so far: [by, addr]
    f_ret,       \* what the last frame allocation or boot did
    \* ---- execution contexts inside the compare-and-swap retry loops
    ctx,         \* per context: where it is in alloc / allocate_frame
    c_out,       \* ranges returned by completed calls: [addr, size]
    c_overlap,   \* a completed call returned a range overlapping an earlier one
    c_calls,     \* calls begun so far
    \* ---- BuddyAllocator
    free_lists,  \* free_lists[order] for order 0 .. MAX_ORDER - 1 (0 = None)
    bmem,        \* BuddyBlock.next of the blocks written so far: addr -> next
    b_region,    \* [start, size] given to init ([0, 0] before)
    b_live,      \* blocks handed out and not yet freed: [addr, size, align]
    b_ret,       \* what the last call did
    b_status,    \* "ready" or "panicked"
    \* ---- page tables and the address-space syscalls
    virt_sign_extend, \* build: VirtAddr::new sign-extends bit 47 (else panics)
    ptab,        \* page-table frames written so far: frame -> table entries
    mmap_next,   \* memory::NEXT_MMAP_ADDR
    virt_next,   \* syscalls::handlers::memory::NEXT_VIRT_ADDR
    stale_link,  \* a table was linked into its parent while not all zero
    procs,       \* roots made by create_process_page_table, with the
                 \* upper half of the active root at the moment of the call
    next_pid,    \* memory::sys_pstart::NEXT_PID
    p_ret,       \* what the last paging call did
    p_status,    \* "ready" or "panicked"
    \* ---- SpinLock and the locks of the kernel heap
    lk_locked,   \* per lock: SpinLock.locked (0 or 1)
    lk_stack,    \* per context: the locks it is taking or holds, innermost last
    lk_call,     \* per context: the call in progress
    lk_class,    \* blocks on the class list of the size asked for
    \* ---- allocator initialisation
    i_allocs,    \* one allocator of each kind: its initialised flag and region
    i_ret,       \* what the last validate_region or init call did
    \* ---- the program break
    brk_h,       \* syscalls::handlers::memory::PROGRAM_BREAK
    brk_m,       \* PROGRAM_BREAK of memory::sys_brk
    k_ret,       \* what the last sys_brk call did
    \* ---- one SlabAllocator<SIZE, ALIGN>
    sl_size,     \* SIZE
    sl_align,    \* ALIGN
    sl_head,     \* SlabAllocatorInner.head (0 = None)
    sl_mem,      \* BlockNode.next of the blocks written so far: addr -> next
    sl_live,     \* blocks handed out and not yet freed
    sl_ret,      \* what the last call on the slab allocator did
    \* ---- the keyboard / mouse byte ring
    rb_buf,      \* RING_BUF / MOUSE_BUF
    rb_head,     \* HEAD / MOUSE_HEAD
    rb_tail,     \* TAIL / MOUSE_TAIL
    rb_prod,     \* the interrupt handler inside enqueue: pc and locals
    rb_cons,     \* the consumer inside dequeue: pc and locals
    rb_in,       \* the bytes enqueue did not drop, in call order
    rb_out,      \* the bytes dequeue has returned, in call order
    rb_calls,    \* enqueue calls begun so far
    \* ---- task::TaskScheduler
    sch_tasks,   \* tasks: Vec<Task>, each [id, state, iterations, runs]
    sch_current, \* current_task
    sch_next_id, \* next_id
    sch_pc,      \* "open", inside run_all ("run") or after it ("done")
    sch_ret,     \* what the last step returned: a task id, 0 for None
    \* ---- BumpAllocator::init / StackAllocator::init store by store
    init_run,    \* the init call racing with alloc: pc and arguments
    nops         \* number of calls made so far

heapvars == <<ll_init, ll_head, list_heads, mem, hlive, hret, hstatus>>
cursorvars == <<akind, a_init, a_start, a_end, a_cur, a_blocks, a_lifo, a_ret,
                a_status>>
framevars == <<memory_initialized, boot_map, g_start, g_end, g_next, s_next,
              f_out, f_ret>>
casvars == <<ctx, c_out, c_overlap, c_calls>>
buddyvars == <<free_lists, bmem, b_region, b_live, b_ret, b_status>>
pagevars == <<virt_sign_extend, ptab, mmap_next, virt_next, stale_link, procs,
              next_pid, p_ret, p_status>>
\* the state of the subsystems that the allocator actions never touch
lockvars == <<lk_locked, lk_stack, lk_call, lk_class>>
initvars == <<i_allocs, i_ret>>
brkvars == <<brk_h, brk_m, k_ret>>
slabvars == <<sl_size, sl_align, sl_head, sl_mem, sl_live, sl_ret>>
ringvars == <<rb_buf, rb_head, rb_tail, rb_prod, rb_cons, rb_in, rb_out,
             rb_calls>>
\* the subsystems outside the memory manager
schedvars == <<sch_tasks, sch_current, sch_next_id, sch_pc, sch_ret>>
devvars == <<ringvars, schedvars, init_run>>
restvars == <<lockvars, initvars, brkvars, slabvars, devvars>>
\* everything the subsystems outside the memory manager leave alone
memvars == <<mode, overflow_checks, heapvars, cursorvars, framevars, casvars,
             buddyvars, pagevars, lockvars, initvars, brkvars, slabvars, nops>>
extvars == <<pagevars, restvars>>
vars == <<mode, overflow_checks, heapvars, cursorvars, framevars, casvars,
          buddyvars, extvars, nops>>

----------------------------------------------------------------------------
(* Machine words and layouts *)

\* usize, scaled: every address and size is in 0 .. Word - 1
Word == 2^16

\* isize::MAX for the scaled word
IsizeMax == (Word \div 2) - 1

IsPow2(n) == n \in {2^k : k \in 0..15}

Max(a, b) == IF a >= b THEN a ELSE b

\* Layout::from_size_align: align a power of two, size rounded up to align
\* does not exceed isize::MAX (size <= isize::MAX - (align - 1))
ValidLayout(size, align) ==
    /\ IsPow2(align)
    /\ size >= 0
    /\ size <= IsizeMax - (align - 1)

\* absent result of a checked operation
None == 0 - 1

\* usize::checked_add
checked_add(a, b) == IF a + b >= Word THEN None ELSE a + b

\* usize::saturating_add
saturating_add(a, b) == IF a + b >= Word THEN Word - 1 ELSE a + b

\* core.rs align_up: (addr + align - 1) & !(align - 1), wrapping
align_up(addr, align) ==
    LET x == (addr + align - 1) % Word
    IN x - (x % align)

\* the unchecked addition in align_up overflows (a panic when overflow checks
\* are compiled in)
align_up_overflows(addr, align) == addr + align - 1 >= Word

----------------------------------------------------------------------------
(* Heap memory words *)

\* size_of::<ListNode>(): a usize and an Option<NonNull<ListNode>>
ListNodeSize == 16

\* offset of ListNode.next inside the header (after the usize size field)
NextOff == 8

\* the region handed to the kernel heap: a 4096-aligned static buffer
HeapStart == 2 * 4096
HeapSize == 8192
HeapEnd == HeapStart + HeapSize

\* a header read in place: the whole two-field header lies in the heap buffer
InHeap(p) == p >= HeapStart /\ p + ListNodeSize <= HeapEnd

\* the static buffer is zero-initialised: a word never written reads 0
Rd(m, a) == IF a \in DOMAIN m THEN m[a] ELSE 0

Wr(m, a, v) == [x \in (DOMAIN m) \cup {a} |-> IF x = a THEN v ELSE m[x]]

\* `*current = v`: current is &mut inner.head (slot 0) or &mut node.next
WrSlot(st, slot, v) ==
    IF slot = 0 THEN [st EXCEPT !.head = v]
    ELSE [st EXCEPT !.mem = Wr(st.mem, slot, v)]

----------------------------------------------------------------------------
(* LinkedListAllocator: the intrusive first-fit free list *)

\* core.rs validate_region
validate_region(start, size) ==
    IF start = 0 THEN "InvalidAddress"
    ELSE IF size = 0 THEN "InvalidSize"
    ELSE IF checked_add(start, size) = None THEN "Overflow"
    ELSE "Ok"

\* LinkedListAllocator::init on allocator state st = [init, head, mem, heads]
LLInit(st, heap_start, heap_size) ==
    IF validate_region(heap_start, heap_size) # "Ok"
    THEN [st |-> st, res |-> validate_region(heap_start, heap_size)]
    ELSE IF heap_size < ListNodeSize THEN [st |-> st, res |-> "InvalidSize"]
    ELSE IF st.init THEN [st |-> st, res |-> "InvalidAddress"]
    ELSE [st |-> [st EXCEPT !.mem = Wr(Wr(st.mem, heap_start, heap_size),
                                       heap_start + NextOff, 0),
                            !.head = heap_start,
                            !.init = TRUE],
          res |-> "Ok"]

\* LinkedListAllocator::alloc_from_region for the node at naddr of size nsize
alloc_from_region(naddr, nsize, size, align) ==
    LET alloc_start == align_up(naddr, align)
        alloc_end == checked_add(alloc_start, size)
        node_end == (naddr + nsize) % Word
    IN  IF alloc_end = None THEN [ok |-> FALSE, start |-> 0]
        ELSE IF alloc_end > node_end THEN [ok |-> FALSE, start |-> 0]
        ELSE IF node_end - alloc_end > 0 /\ node_end - alloc_end < ListNodeSize
             THEN [ok |-> FALSE, start |-> 0]
        ELSE [ok |-> TRUE, start |-> alloc_start]

\* the result of a call that did not return an address
NoAddr(st, status, wild) ==
    [st |-> st, addr |-> 0, status |-> status, wild |-> wild]

\* the four ways LinkedListAllocator::alloc takes [s, s + required) out of the
\* node at `node` (size nsize, next nnext) reached through `slot`
ll_carve(st, slot, node, nsize, nnext, s, required) ==
    LET node_end == (node + nsize) % Word
        after == s + required
    IN  IF s = node /\ after = node_end
        THEN WrSlot(st, slot, nnext)
        ELSE IF s = node
        THEN WrSlot([st EXCEPT !.mem = Wr(Wr(st.mem, after, node_end - after),
                                           after + NextOff, nnext)],
                    slot, after)
        ELSE IF after = node_end
        THEN [st EXCEPT !.mem = Wr(st.mem, node, s - node)]
        ELSE [st EXCEPT !.mem =
                 Wr(Wr(Wr(Wr(st.mem, after, node_end - after),
                          after + NextOff, nnext),
                       node, s - node),
                    node + NextOff, after)]

\* the `while let Some(node_ptr) = *current` loop of LinkedListAllocator::alloc.
\* A pointer outside the heap buffer is dereferenced by the code all the same
\* (status "wild"); a list that leads back into itself never ends ("hang").
RECURSIVE ll_walk(_, _, _, _, _, _)
ll_walk(st, slot, node, required, align, visited) ==
    IF node = 0 THEN NoAddr(st, "null", 0)
    ELSE IF ~InHeap(node) THEN NoAddr(st, "wild", node)
    ELSE IF node \in visited THEN NoAddr(st, "hang", 0)
    ELSE LET nsize == Rd(st.mem, node)
             nnext == Rd(st.mem, node + NextOff)
             r == alloc_from_region(node, nsize, required, align)
         IN  IF r.ok
             THEN [st |-> ll_carve(st, slot, node, nsize, nnext, r.start, required),
                   addr |-> r.start, status |-> "ok", wild |-> 0]
             ELSE ll_walk(st, node + NextOff, nnext, required, align,
                          visited \cup {node})

\* LinkedListAllocator::alloc taking the requested size as it comes
LLAlloc_size_as_given(st, size, align) ==
    IF size = 0 THEN NoAddr(st, "null", 0)
    ELSE IF ~st.init THEN NoAddr(st, "null", 0)
    ELSE ll_walk(st, 0, st.head, align_up(size, align), align, {})

\* LinkedListAllocator::alloc
LLAlloc(st, size, align) ==
    IF size = 0 THEN NoAddr(st, "null", 0)
    ELSE IF ~st.init THEN NoAddr(st, "null", 0)
    ELSE ll_walk(st, 0, st.head,
                 align_up(Max(size, ListNodeSize), align), align, {})

\* LinkedListAllocator::dealloc
LLDealloc(st, ptr, size, align) ==
    IF ptr = 0 \/ ~st.init THEN st
    ELSE [st EXCEPT !.mem = Wr(Wr(st.mem, ptr,
                                  align_up(Max(size, ListNodeSize), align)),
                               ptr + NextOff, st.head),
                    !.head = ptr]

----------------------------------------------------------------------------
(* FixedSizeBlockAllocator: nine intrusive class lists over the fallback *)

BLOCK_SIZES == <<8, 16, 32, 64, 128, 256, 512, 1024, 2048>>

\* size_of::<BlockNode>(): one pointer
BlockNodeSize == 8

\* list_index choosing the class by the size alone
list_index_by_size(size, align) ==
    LET fits == {i \in 1..Len(BLOCK_SIZES) : BLOCK_SIZES[i] >= size}
    IN  IF fits = {} THEN 0
        ELSE CHOOSE i \in fits : \A j \in fits : i <= j

\* FixedSizeBlockAllocator::list_index: position of the first class that is
\* >= max(size, align); 0 stands for None
list_index(size, align) ==
    LET required_size == Max(size, align)
        fits == {i \in 1..Len(BLOCK_SIZES) : BLOCK_SIZES[i] >= required_size}
    IN  IF fits = {} THEN 0
        ELSE CHOOSE i \in fits : \A j \in fits : i <= j

\* FixedSizeBlockAllocator::init
FsbInit(st, heap_start, heap_size) == LLInit(st, heap_start, heap_size)

\* FixedSizeBlockAllocator::alloc.  src tells which arm served the call and
\* wildaddr the address the call hands out if the bytes found behind a pointer
\* that left the heap happen to admit the request.
FsbAlloc(st, size, align) ==
    LET idx == list_index(size, align) IN
    IF size = 0
    THEN NoAddr(st, "null", 0) @@ [src |-> "zero", idx |-> idx, wildaddr |-> 0]
    ELSE IF idx # 0 /\ st.heads[idx] # 0
    THEN LET p == st.heads[idx] IN
         IF p >= HeapStart /\ p + BlockNodeSize <= HeapEnd
         THEN [st |-> [st EXCEPT !.heads[idx] = Rd(st.mem, p)],
               addr |-> p, status |-> "ok", wild |-> 0,
               src |-> "pop", idx |-> idx, wildaddr |-> 0]
         ELSE NoAddr(st, "wild", p)
              @@ [src |-> "pop", idx |-> idx, wildaddr |-> p]
    ELSE IF idx # 0
    THEN LET r == LLAlloc(st, BLOCK_SIZES[idx], BLOCK_SIZES[idx]) IN
         r @@ [src |-> "carve", idx |-> idx,
               wildaddr |-> align_up(r.wild, BLOCK_SIZES[idx])]
    ELSE LET r == LLAlloc(st, size, align) IN
         r @@ [src |-> "fallback", idx |-> 0,
               wildaddr |-> align_up(r.wild, align)]

\* FixedSizeBlockAllocator::dealloc
FsbDealloc(st, ptr, size, align) ==
    LET idx == list_index(size, align) IN
    IF ptr = 0 THEN st
    ELSE IF idx # 0
    THEN [st EXCEPT !.mem = Wr(st.mem, ptr, st.heads[idx]),
                    !.heads[idx] = ptr]
    ELSE LLDealloc(st, ptr, size, align)

----------------------------------------------------------------------------
(* The kernel heap as its clients see it *)

\* requests made of the heap: [size, align]
Layout(size, align) == [size |-> size, align |-> align]

\* the layouts of a set that Layout::from_size_align accepts
Valid(S) == {l \in S : ValidLayout(l.size, l.align)}

HeapLayouts ==
    Valid({ Layout(0, 8), Layout(8, 8), Layout(9, 1), Layout(24, 64),
            Layout(2048, 16), Layout(2056, 8), Layout(3000, 16) })

\* a second, narrower workload that is run for longer
DeepLayouts == Valid({ Layout(2072, 8), Layout(32, 32) })

MaxHeapOps == 6
MaxDeepOps == 11
MaxLive == 4

HeapModes == {"heap", "heapdeep"}
LayoutsOf(m) == IF m = "heap" THEN HeapLayouts ELSE DeepLayouts
MaxOpsOf(m) == IF m = "heap" THEN MaxHeapOps ELSE MaxDeepOps

\* the allocator's state gathered from the variables
HeapSt == [init |-> ll_init, head |-> ll_head, mem |-> mem, heads |-> list_heads]

SetHeapSt(st) ==
    /\ ll_init' = st.init
    /\ ll_head' = st.head
    /\ mem' = st.mem
    /\ list_heads' = st.heads

NoRet == [op |-> "none", size |-> 0, align |-> 0, addr |-> 0,
          src |-> "none", idx |-> 0, status |-> "none"]

HeapInit0 ==
    /\ ll_init = FALSE
    /\ ll_head = 0
    /\ list_heads = [i \in 1..Len(BLOCK_SIZES) |-> 0]
    /\ mem = << >>
    /\ hlive = {}
    /\ hret = NoRet
    /\ hstatus = "ready"

----------------------------------------------------------------------------
(* Boot and the physical frame allocators *)

FrameSize == 4096

\* (addr + 4095) & !4095 on u64 (no wrap-around within reach of the windows)
frame_align_up(addr) == (addr + 4095) - ((addr + 4095) % FrameSize)

\* bounds of the preferred low window and the fixed fallback window
LowWindowMin == 1048576
KernelStart == 16777216
FallbackStart == 25165824
FallbackEnd == 27262976

\* syscalls/handlers/memory.rs: the hard-coded window of SimpleFrameAllocator
PHYSICAL_MEMORY_START == 292352000
PHYSICAL_MEMORY_END == 2147352576

\* boot memory maps: sequences of regions [start, end, usable]
BootRegion(start, end, usable) == [start |-> start, end |-> end, usable |-> usable]
BootMaps ==
    { << BootRegion(LowWindowMin, LowWindowMin + 3 * FrameSize, TRUE) >>,
      << BootRegion(0, 651264, TRUE),
         BootRegion(LowWindowMin + 2048, LowWindowMin + 4 * FrameSize, TRUE),
         BootRegion(2097152, 2097152 + FrameSize, TRUE) >>,
      << BootRegion(KernelStart - FrameSize, KernelStart + 2 * FrameSize, TRUE) >>,
      << BootRegion(KernelStart, 2 * KernelStart, FALSE),
         BootRegion(2 * KernelStart, 3 * KernelStart, TRUE) >>,
      << BootRegion(LowWindowMin, 2 * LowWindowMin, FALSE) >> }

\* memory::init, second loop: the largest usable region that starts in
\* [1 MiB, 16 MiB), capped at 16 MiB
RECURSIVE pick_window(_, _, _, _)
pick_window(bm, i, frame_start, frame_end) ==
    IF i > Len(bm) THEN [start |-> frame_start, end |-> frame_end]
    ELSE LET region == bm[i]
             usable_end == IF region.end < KernelStart THEN region.end
                           ELSE KernelStart
             better == /\ region.usable
                       /\ region.start >= LowWindowMin
                       /\ region.start < KernelStart
                       /\ usable_end > region.start
                       /\ usable_end - region.start > frame_end - frame_start
         IN  IF better THEN pick_window(bm, i + 1, region.start, usable_end)
             ELSE pick_window(bm, i + 1, frame_start, frame_end)

\* memory::init, window selection; ok = FALSE is "No usable memory found"
frame_window(bm) ==
    LET w == pick_window(bm, 1, 0, 0) IN
    IF \A i \in DOMAIN bm : ~bm[i].usable \/ bm[i].end - bm[i].start = 0
    THEN [ok |-> FALSE, start |-> 0, end |-> 0]
    ELSE IF w.start = 0
    THEN [ok |-> TRUE, start |-> FallbackStart, end |-> FallbackEnd]
    ELSE [ok |-> TRUE, start |-> w.start, end |-> w.end]

\* an allocate_frame that hands out the cursor value without rounding it up
global_frame_attempt_unaligned(current, memory_end) ==
    IF current + FrameSize > memory_end
    THEN [res |-> "null", aligned |-> 0, new |-> current]
    ELSE [res |-> "cas", aligned |-> current, new |-> current + FrameSize]

\* one pass of GlobalFrameAllocator::allocate_frame up to the compare-and-swap
global_frame_attempt(current, memory_end) ==
    LET frame_addr == frame_align_up(current)
        next_frame == frame_addr + FrameSize
    IN  IF next_frame > memory_end
        THEN [res |-> "null", aligned |-> 0, new |-> current]
        ELSE [res |-> "cas", aligned |-> frame_addr, new |-> next_frame]

\* one pass of SimpleFrameAllocator::allocate_frame up to the compare-and-swap
simple_frame_attempt(current) ==
    LET frame_addr == frame_align_up(current)
        next_frame == frame_addr + FrameSize
    IN  IF next_frame >= PHYSICAL_MEMORY_END
        THEN [res |-> "null", aligned |-> 0, new |-> current]
        ELSE [res |-> "cas", aligned |-> frame_addr, new |-> next_frame]

FRet(op, by, addr, status, dup) ==
    [op |-> op, by |-> by, addr |-> addr, status |-> status, dup |-> dup]

FrameInit0 ==
    /\ memory_initialized = FALSE
    /\ boot_map = << >>
    /\ g_start = 0
    /\ g_end = 0
    /\ g_next = 0
    /\ s_next = PHYSICAL_MEMORY_START
    /\ f_out = {}
    /\ f_ret = FRet("none", "none", 0, "none", FALSE)

MaxFrameOps == 7

PageWindowFrames == 6
MaxPageOps == 4
PageModes == {"page", "mmap", "brk", "pstart"}

BootModes == HeapModes \cup {"frame", "reinit"} \cup PageModes
BootMapsOf(m) ==
    IF m = "frame" THEN BootMaps
    ELSE IF m \in PageModes
    THEN { << BootRegion(LowWindowMin,
                         LowWindowMin + PageWindowFrames * FrameSize, TRUE) >> }
    ELSE { << BootRegion(LowWindowMin, LowWindowMin + 3 * FrameSize, TRUE) >> }
OpsLeft ==
    nops < (IF mode \in {"frame", "reinit"} THEN MaxFrameOps
            ELSE IF mode \in PageModes THEN MaxPageOps
            ELSE MaxOpsOf(mode))

\* memory::init, called once by the boot path: picks the frame window, then
\* builds a FixedSizeBlockAllocator over the static heap buffer and installs it
MemoryInit ==
    /\ mode \in BootModes
    /\ ~memory_initialized
    /\ hstatus = "ready"
    /\ OpsLeft
    /\ \E bm \in BootMapsOf(mode) :
       LET w == frame_window(bm)
           fresh == [init |-> FALSE, head |-> 0, mem |-> mem,
                     heads |-> [i \in 1..Len(BLOCK_SIZES) |-> 0]]
           r == FsbInit(fresh, HeapStart, HeapSize)
       IN  IF ~w.ok
           THEN /\ f_ret' = FRet("init", "none", 0, "No usable memory found", FALSE)
                /\ UNCHANGED <<ll_init, ll_head, list_heads, mem, hret,
                               memory_initialized, boot_map, g_start, g_end,
                               g_next>>
           ELSE /\ boot_map' = bm
                /\ g_start' = w.start
                /\ g_end' = w.end
                /\ g_next' = w.start
                /\ f_ret' = FRet("init", "none", 0, r.res, FALSE)
                /\ hret' = [NoRet EXCEPT !.op = "init", !.status = r.res]
                /\ IF r.res = "Ok"
                   THEN SetHeapSt(r.st) /\ memory_initialized' = TRUE
                   ELSE UNCHANGED <<ll_init, ll_head, list_heads, mem,
                                    memory_initialized>>
    /\ nops' = nops + 1
    /\ UNCHANGED <<mode, overflow_checks, extvars, hlive, hstatus, cursorvars, casvars,
                   buddyvars, s_next, f_out>>

\* GlobalFrameAllocator::allocate_frame / SimpleFrameAllocator::allocate_frame
\* run by one context alone
FrameAlloc ==
    /\ mode \in {"frame", "reinit"}
    /\ OpsLeft
    /\ \E by \in {"global", "simple"} :
       LET t == IF by = "global" THEN global_frame_attempt(g_next, g_end)
                ELSE simple_frame_attempt(s_next)
       IN  /\ g_next' = IF by = "global" THEN t.new ELSE g_next
           /\ s_next' = IF by = "simple" THEN t.new ELSE s_next
           /\ IF t.res = "null"
              THEN /\ f_ret' = FRet("alloc", by, 0, "null", f_ret.dup)
                   /\ UNCHANGED f_out
              ELSE /\ f_ret' = FRet("alloc", by, t.aligned, "ok",
                                    f_ret.dup \/ \E f \in f_out : f.addr = t.aligned)
                   /\ f_out' = f_out \cup {[by |-> by, addr |-> t.aligned]}
    /\ nops' = nops + 1
    /\ UNCHANGED <<mode, overflow_checks, extvars, heapvars, cursorvars, casvars, buddyvars,
                   memory_initialized, boot_map, g_start, g_end>>

NextFrame == MemoryInit \/ FrameAlloc

\* LockedHeap::alloc: null until memory::init has installed the allocator
LockedHeapAlloc(size, align) ==
    IF ~memory_initialized
    THEN NoAddr(HeapSt, "null", 0) @@ [src |-> "none", idx |-> 0, wildaddr |-> 0]
    ELSE FsbAlloc(HeapSt, size, align)

\* GlobalAlloc::alloc on the kernel heap
HeapAlloc ==
    /\ mode \in HeapModes
    /\ hstatus = "ready"
    /\ nops < MaxOpsOf(mode)
    /\ Cardinality(hlive) < MaxLive
    /\ \E l \in LayoutsOf(mode) :
       LET r == LockedHeapAlloc(l.size, l.align)
           ret == [op |-> "alloc", size |-> l.size, align |-> l.align,
                   addr |-> r.addr, src |-> r.src, idx |-> r.idx,
                   status |-> r.status]
       IN  \/ /\ r.status \in {"ok", "null"}
              /\ SetHeapSt(r.st)
              /\ hret' = ret
              /\ hlive' = IF r.addr = 0 THEN hlive
                          ELSE hlive \cup {[addr |-> r.addr, size |-> l.size,
                                            align |-> l.align]}
              /\ UNCHANGED hstatus
           \/ /\ r.status = "hang"
              /\ hstatus' = "halted"
              /\ hret' = ret
              /\ UNCHANGED <<ll_init, ll_head, list_heads, mem, hlive>>
           \/ /\ r.status = "wild"
              /\ \/ /\ hstatus' = "halted"
                    /\ hret' = [ret EXCEPT !.status = "fault"]
                    /\ UNCHANGED hlive
                 \/ /\ r.src # "pop"
                    /\ hstatus' = "ready"
                    /\ hret' = [ret EXCEPT !.status = "null"]
                    /\ UNCHANGED hlive
                 \/ /\ hstatus' = "poisoned"
                    /\ hret' = [ret EXCEPT !.status = "ok", !.addr = r.wildaddr]
                    /\ hlive' = hlive \cup {[addr |-> r.wildaddr, size |-> l.size,
                                             align |-> l.align]}
              /\ UNCHANGED <<ll_init, ll_head, list_heads, mem>>
    /\ nops' = nops + 1
    /\ UNCHANGED <<mode, overflow_checks, extvars, cursorvars, framevars, casvars, buddyvars>>

\* GlobalAlloc::dealloc on the kernel heap, of a live block with its layout
HeapDealloc ==
    /\ mode \in HeapModes
    /\ hstatus = "ready"
    /\ nops < MaxOpsOf(mode)
    /\ \E b \in hlive :
       /\ SetHeapSt(FsbDealloc(HeapSt, b.addr, b.size, b.align))
       /\ hlive' = hlive \ {b}
       /\ hret' = [op |-> "free", size |-> b.size, align |-> b.align,
                   addr |-> b.addr, src |-> "none",
                   idx |-> list_index(b.size, b.align), status |-> "ok"]
    /\ nops' = nops + 1
    /\ UNCHANGED <<mode, overflow_checks, extvars, hstatus, cursorvars, framevars, casvars, buddyvars>>

NextHeap == MemoryInit \/ HeapAlloc \/ HeapDealloc

----------------------------------------------------------------------------
(* BumpAllocator and StackAllocator: a cursor moved by compare-and-swap *)

\* one pass through the retry loop of BumpAllocator::alloc / StackAllocator::
\* alloc up to the compare-and-swap: the cursor value read, the region end
\* read before the loop, and the request
alloc_attempt(current, limit, size, align) ==
    IF overflow_checks /\ align_up_overflows(current, align)
    THEN [res |-> "panic", aligned |-> 0, new |-> current]
    ELSE LET aligned == align_up(current, align)
             new == checked_add(aligned, size)
         IN  IF new = None THEN [res |-> "null", aligned |-> 0, new |-> current]
             ELSE IF new > limit
                  THEN [res |-> "null", aligned |-> 0, new |-> current]
             ELSE [res |-> "cas", aligned |-> aligned, new |-> new]

\* a dealloc that stores addr without comparing the cursor
stack_dealloc_store(top, addr, size) == IF addr = 0 THEN top ELSE addr

\* StackAllocator::dealloc: the cursor after compare_exchange(expected_top, addr)
stack_dealloc(top, addr, size) ==
    IF addr = 0 THEN top
    ELSE IF top = saturating_add(addr, size) THEN addr
    ELSE top

\* regions the instance is initialised over: a small one, one that ends at the
\* top of the address space, and three that validate_region turns down
Region(start, size) == [start |-> start, size |-> size]
LowSize == 40
TopSize == 16382
SeqRegions ==
    { Region(4096, LowSize), Region(Word - 1 - TopSize, TopSize),
      Region(0, 64), Region(4096, 0), Region(Word - 8, 64) }

SeqLayouts ==
    Valid({ Layout(0, 1), Layout(1, 1), Layout(8, 8), Layout(16, 1),
            Layout(18, 1), Layout(16384, 16384), Layout(32767, 1) })

MaxSeqOps == 6

ARet(op, size, align, addr, before, status) ==
    [op |-> op, size |-> size, align |-> align, addr |-> addr,
     before |-> before, status |-> status]

CursorInit0 ==
    /\ a_init = 0
    /\ a_start = 0
    /\ a_end = 0
    /\ a_cur = 0
    /\ a_blocks = << >>
    /\ a_lifo = TRUE
    /\ a_ret = ARet("none", 0, 0, 0, 0, "none")
    /\ a_status = "ready"

SeqStep ==
    /\ mode = "seq"
    /\ a_status = "ready"
    /\ nops < MaxSeqOps
    /\ nops' = nops + 1
    /\ UNCHANGED <<mode, overflow_checks, extvars, heapvars, framevars, casvars, buddyvars,
                   akind>>

\* BumpAllocator::init / StackAllocator::init
SeqInit ==
    /\ SeqStep
    /\ \E r \in SeqRegions :
       LET v == validate_region(r.start, r.size) IN
       IF v # "Ok"
       THEN /\ a_ret' = ARet("init", r.size, 0, r.start, a_cur, v)
            /\ UNCHANGED <<a_init, a_start, a_end, a_cur, a_blocks, a_lifo, a_status>>
       ELSE IF a_init # 0
       THEN /\ a_ret' = ARet("init", r.size, 0, r.start, a_cur, "InvalidAddress")
            /\ UNCHANGED <<a_init, a_start, a_end, a_cur, a_blocks, a_lifo, a_status>>
       ELSE /\ a_init' = 1
            /\ a_start' = r.start
            /\ a_end' = r.start + r.size
            /\ a_cur' = r.start
            /\ a_ret' = ARet("init", r.size, 0, r.start, a_cur, "Ok")
            /\ UNCHANGED <<a_blocks, a_lifo, a_status>>

\* BumpAllocator::alloc / StackAllocator::alloc run by one context alone: the
\* compare-and-swap of the pass that reaches it succeeds (a spurious failure
\* only repeats the same pass)
SeqAlloc ==
    /\ SeqStep
    /\ \E l \in SeqLayouts :
       LET t == alloc_attempt(a_cur, a_end, l.size, l.align) IN
       IF a_init = 0 \/ l.size = 0 \/ t.res = "null"
       THEN /\ a_ret' = ARet("alloc", l.size, l.align, 0, a_cur, "null")
            /\ UNCHANGED <<a_init, a_start, a_end, a_cur, a_blocks, a_lifo, a_status>>
       ELSE IF t.res = "panic"
       THEN /\ a_status' = "panicked"
            /\ a_ret' = ARet("alloc", l.size, l.align, 0, a_cur, "panic")
            /\ UNCHANGED <<a_init, a_start, a_end, a_cur, a_blocks, a_lifo>>
       ELSE /\ a_cur' = t.new
            /\ a_ret' = ARet("alloc", l.size, l.align, t.aligned, a_cur,
                             IF t.aligned = 0 THEN "null" ELSE "ok")
            /\ a_blocks' = IF t.aligned = 0 THEN a_blocks
                           ELSE Append(a_blocks,
                                       [addr |-> t.aligned, size |-> l.size,
                                        align |-> l.align, before |-> a_cur])
            /\ UNCHANGED <<a_init, a_start, a_end, a_lifo, a_status>>

RemoveAt(q, i) == [j \in 1..(Len(q) - 1) |-> IF j < i THEN q[j] ELSE q[j + 1]]

\* BumpAllocator::dealloc (no effect) / StackAllocator::dealloc, of a live block
\* with the layout it was allocated with
SeqDealloc ==
    /\ SeqStep
    /\ \E i \in DOMAIN a_blocks :
       LET b == a_blocks[i] IN
       /\ a_cur' = IF akind = "bump" THEN a_cur
                   ELSE stack_dealloc(a_cur, b.addr, b.size)
       /\ a_blocks' = RemoveAt(a_blocks, i)
       /\ a_lifo' = (a_lifo /\ i = Len(a_blocks))
       /\ a_ret' = ARet("free", b.size, b.align, b.addr, a_cur,
                        IF i = Len(a_blocks) THEN "last" ELSE "inner")
    /\ UNCHANGED <<a_init, a_start, a_end, a_status>>

\* BumpAllocator::reset / StackAllocator::reset: every block handed out so far
\* becomes invalid
SeqReset ==
    /\ SeqStep
    /\ a_cur' = IF a_init # 0 THEN a_start ELSE a_cur
    /\ a_blocks' = << >>
    /\ a_lifo' = TRUE
    /\ a_ret' = ARet("reset", 0, 0, 0, a_cur, "ok")
    /\ UNCHANGED <<a_init, a_start, a_end, a_status>>

NextSeq == SeqInit \/ SeqAlloc \/ SeqDealloc \/ SeqReset

----------------------------------------------------------------------------
(* Several contexts inside the retry loops, one atomic access per step *)

Ctxs == {1, 2}
\* the modes in which contexts run the retry loops
CasModes == {"cas", "race"}
MaxCasCalls == 4

CasLayouts ==
    Valid({ Layout(16, 1), Layout(18, 1), Layout(16384, 16384),
            Layout(32767, 1) })

\* regions of the bump / stack instance the contexts share
CasRegions == { Region(4096, LowSize), Region(Word - 1 - TopSize, TopSize) }

Idle == [pc |-> "idle", size |-> 0, align |-> 0, limit |-> 0, cur |-> 0,
         aligned |-> 0, new |-> 0]

CasInit0 ==
    /\ ctx = [t \in Ctxs |-> Idle]
    /\ c_out = {}
    /\ c_overlap = FALSE
    /\ c_calls = 0

\* the cursor the contexts contend for
Cursor == IF akind = "gframe" THEN g_next ELSE a_cur

Overlap(a1, s1, a2, s2) == a1 < a2 + s2 /\ a2 < a1 + s1

\* a call returns: addr for a request of size bytes, or null / None
Return(t, addr, size) ==
    /\ ctx' = [ctx EXCEPT ![t] = Idle]
    /\ IF addr = 0
       THEN UNCHANGED <<c_out, c_overlap>>
       ELSE /\ c_out' = c_out \cup {[addr |-> addr, size |-> size]}
            /\ c_overlap' = (c_overlap \/
                             \E r \in c_out : Overlap(addr, size, r.addr, r.size))

\* the one-time initialisation the contexts run after: BumpAllocator::init /
\* StackAllocator::init over a valid region
CasSetup ==
    /\ mode = "cas"
    /\ akind \in {"bump", "stack"}
    /\ a_init = 0
    /\ \E r \in CasRegions :
       /\ validate_region(r.start, r.size) = "Ok"
       /\ a_init' = 1
       /\ a_start' = r.start
       /\ a_end' = r.start + r.size
       /\ a_cur' = r.start
       /\ a_ret' = ARet("init", r.size, 0, r.start, a_cur, "Ok")
    /\ UNCHANGED <<mode, overflow_checks, extvars, heapvars, framevars, casvars, buddyvars,
                   nops, akind, a_blocks, a_lifo, a_status>>

\* memory::init of the frame window the contexts allocate from
CasBoot ==
    /\ mode = "cas"
    /\ akind = "gframe"
    /\ ~memory_initialized
    /\ \E bm \in BootMaps :
       LET w == frame_window(bm)
           fresh == [init |-> FALSE, head |-> 0, mem |-> mem,
                     heads |-> [i \in 1..Len(BLOCK_SIZES) |-> 0]]
           r == FsbInit(fresh, HeapStart, HeapSize)
       IN  /\ w.ok
           /\ boot_map' = bm
           /\ g_start' = w.start
           /\ g_end' = w.end
           /\ g_next' = w.start
           /\ SetHeapSt(r.st)
           /\ memory_initialized' = TRUE
           /\ f_ret' = FRet("init", "none", 0, r.res, FALSE)
           /\ hret' = [NoRet EXCEPT !.op = "init", !.status = r.res]
    /\ UNCHANGED <<mode, overflow_checks, extvars, hlive, hstatus, cursorvars, casvars,
                   buddyvars, nops, s_next, f_out>>

\* entry of alloc / allocate_frame up to the loop: the initialized and size
\* checks and the load of the region end (bump, stack)
CasCall(t) ==
    /\ mode \in CasModes
    /\ a_status = "ready"
    /\ ctx[t].pc = "idle"
    /\ c_calls < MaxCasCalls
    /\ c_calls' = c_calls + 1
    /\ IF akind = "gframe"
       THEN /\ ctx' = [ctx EXCEPT ![t] = [Idle EXCEPT !.pc = "load",
                                                      !.size = FrameSize]]
            /\ UNCHANGED <<c_out, c_overlap>>
       ELSE \E l \in CasLayouts :
            IF a_init = 0 \/ l.size = 0
            THEN Return(t, 0, l.size)
            ELSE /\ ctx' = [ctx EXCEPT ![t] =
                              [Idle EXCEPT !.pc = "load", !.size = l.size,
                                           !.align = l.align, !.limit = a_end]]
                 /\ UNCHANGED <<c_out, c_overlap>>
    /\ UNCHANGED <<mode, overflow_checks, extvars, heapvars, framevars, cursorvars,
                   buddyvars, nops>>

\* top of the loop: load the cursor, compute the candidate, fail if it does
\* not fit
CasLoad(t) ==
    /\ mode \in CasModes
    /\ a_status = "ready"
    /\ ctx[t].pc = "load"
    /\ LET c == ctx[t]
           a == IF akind = "gframe" THEN global_frame_attempt(g_next, g_end)
                ELSE alloc_attempt(a_cur, c.limit, c.size, c.align)
       IN  IF a.res = "panic"
           THEN /\ a_status' = "panicked"
                /\ UNCHANGED <<casvars, a_init, a_start, a_end, a_cur, a_blocks,
                               a_lifo, a_ret>>
           ELSE IF a.res = "null"
           THEN /\ Return(t, 0, c.size)
                /\ UNCHANGED <<c_calls, a_init, a_start, a_end, a_cur, a_blocks,
                               a_lifo, a_ret, a_status>>
           ELSE /\ ctx' = [ctx EXCEPT ![t] =
                             [c EXCEPT !.pc = "cas", !.cur = Cursor,
                                       !.aligned = a.aligned, !.new = a.new]]
                /\ UNCHANGED <<c_out, c_overlap, c_calls, a_init, a_start, a_end,
                               a_cur, a_blocks, a_lifo, a_ret, a_status>>
    /\ UNCHANGED <<mode, overflow_checks, extvars, heapvars, framevars, buddyvars, nops,
                   akind>>

\* compare_exchange_weak succeeds: the cursor still holds the value loaded
CasSwapOk(t) ==
    /\ mode \in CasModes
    /\ a_status = "ready"
    /\ ctx[t].pc = "cas"
    /\ Cursor = ctx[t].cur
    /\ IF akind = "gframe"
       THEN g_next' = ctx[t].new /\ UNCHANGED a_cur
       ELSE a_cur' = ctx[t].new /\ UNCHANGED g_next
    /\ Return(t, ctx[t].aligned, ctx[t].size)
    /\ UNCHANGED <<mode, overflow_checks, extvars, heapvars, buddyvars, nops, c_calls, akind, a_init,
                   a_start, a_end, a_blocks, a_lifo, a_ret, a_status,
                   memory_initialized, boot_map, g_start, g_end, s_next, f_out,
                   f_ret>>

\* compare_exchange_weak fails, because the cursor moved or spuriously: retry
CasSwapFail(t) ==
    /\ mode \in CasModes
    /\ a_status = "ready"
    /\ ctx[t].pc = "cas"
    /\ ctx' = [ctx EXCEPT ![t].pc = "load"]
    /\ UNCHANGED <<mode, overflow_checks, extvars, heapvars, framevars, cursorvars,
                   buddyvars, nops, c_out, c_overlap, c_calls>>

NextCas ==
    \/ CasSetup
    \/ CasBoot
    \/ \E t \in Ctxs : CasCall(t) \/ CasLoad(t) \/ CasSwapOk(t) \/ CasSwapFail(t)

----------------------------------------------------------------------------
(* BuddyAllocator (allocators/simple.rs): power-of-two blocks, split on demand *)

MAX_ORDER == 11

\* usize::next_power_of_two followed by trailing_zeros: the least k with
\* 2^k >= n (0 for n = 0)
log2_ceil(n) == CHOOSE k \in 0..16 : 2^k >= n /\ \A j \in 0..16 : 2^j >= n => k <= j

\* BuddyAllocator::size_to_order
size_to_order(size) ==
    IF log2_ceil(size) < MAX_ORDER - 1 THEN log2_ceil(size) ELSE MAX_ORDER - 1

\* BuddyAllocator::order_to_size
order_to_size(order) == 2^order

\* the order BuddyAllocator::alloc and dealloc compute for a layout
layout_order(size, align) == size_to_order(Max(size, align))

\* BuddyAllocator::split_block on bs = [lists, mem].  free_lists has MAX_ORDER
\* entries: indexing it with MAX_ORDER panics.
RECURSIVE split_block(_, _)
split_block(bs, order) ==
    IF order = 0 THEN [bs |-> bs, res |-> "none"]
    ELSE IF order >= MAX_ORDER THEN [bs |-> bs, res |-> "panic"]
    ELSE LET up == IF bs.lists[order] = 0 THEN split_block(bs, order + 1)
                   ELSE [bs |-> bs, res |-> "some"]
         IN  IF up.res # "some" THEN up
             ELSE LET block == up.bs.lists[order] IN
                  IF block = 0
                  THEN [bs |-> up.bs, res |-> "none"]
                  ELSE LET buddy_addr == block + order_to_size(order - 1) IN
                       [bs |-> [lists |-> [up.bs.lists EXCEPT
                                              ![order] = 0,
                                              ![order - 1] = buddy_addr],
                                mem |-> Wr(up.bs.mem, buddy_addr,
                                           up.bs.lists[order - 1])],
                        res |-> "some"]

\* `while current_order > order { split_block(current_order); }`: the loop
\* variable never changes, so the loop ends only when a split panics
RECURSIVE split_loop(_, _)
split_loop(bs, current_order) ==
    LET r == split_block(bs, current_order) IN
    IF r.res = "panic" THEN [bs |-> r.bs, res |-> "panic"]
    ELSE split_loop(r.bs, current_order)

\* BuddyAllocator::alloc, the `for current_order in order..MAX_ORDER` loop
RECURSIVE buddy_alloc(_, _, _)
buddy_alloc(bs, order, current_order) ==
    IF current_order >= MAX_ORDER THEN [bs |-> bs, res |-> "null", addr |-> 0]
    ELSE IF bs.lists[current_order] = 0
    THEN buddy_alloc(bs, order, current_order + 1)
    ELSE IF current_order > order
    THEN [bs |-> split_loop(bs, current_order).bs, res |-> "panic", addr |-> 0]
    ELSE LET block == bs.lists[order] IN
         [bs |-> [lists |-> [bs.lists EXCEPT ![order] = Rd(bs.mem, block)],
                  mem |-> Wr(bs.mem, block, 0)],
          res |-> "ok", addr |-> block]

\* BuddyAllocator::dealloc
buddy_dealloc(bs, ptr, order) ==
    [lists |-> [bs.lists EXCEPT ![order] = ptr],
     mem |-> Wr(bs.mem, ptr, bs.lists[order])]

BuddySt == [lists |-> free_lists, mem |-> bmem]

BuddyStart == 2^12
BuddyRegionSizes == {16, 32, 64, 128}
BuddyLayouts ==
    Valid({ Layout(8, 8), Layout(16, 8), Layout(32, 16), Layout(64, 64),
            Layout(100, 1) })
MaxBuddyOps == 5

BRet(op, order, addr, status) ==
    [op |-> op, order |-> order, addr |-> addr, status |-> status]

BuddyInit0 ==
    /\ free_lists = [o \in 0..(MAX_ORDER - 1) |-> 0]
    /\ bmem = << >>
    /\ b_region = Region(0, 0)
    /\ b_live = {}
    /\ b_ret = BRet("none", 0, 0, "none")
    /\ b_status = "ready"

BuddyStep ==
    /\ mode = "buddy"
    /\ b_status = "ready"
    /\ nops < MaxBuddyOps
    /\ nops' = nops + 1
    /\ UNCHANGED <<mode, overflow_checks, extvars, heapvars, cursorvars, framevars, casvars>>

\* BuddyAllocator::init, called once on a new allocator
BuddyInit ==
    /\ BuddyStep
    /\ b_region = Region(0, 0)
    /\ \E size \in BuddyRegionSizes :
       LET order == size_to_order(size) IN
       /\ b_region' = Region(BuddyStart, size)
       /\ bmem' = Wr(bmem, BuddyStart, 0)
       /\ free_lists' = [free_lists EXCEPT ![order] = BuddyStart]
       /\ b_ret' = BRet("init", order, BuddyStart, "ok")
    /\ UNCHANGED <<b_live, b_status>>

\* BuddyAllocator::alloc
BuddyAlloc ==
    /\ BuddyStep
    /\ \E l \in BuddyLayouts :
       LET order == layout_order(l.size, l.align)
           r == buddy_alloc(BuddySt, order, order)
       IN  /\ free_lists' = r.bs.lists
           /\ bmem' = r.bs.mem
           /\ b_ret' = BRet("alloc", order, r.addr, r.res)
           /\ b_status' = IF r.res = "panic" THEN "panicked" ELSE "ready"
           /\ b_live' = IF r.res = "ok"
                        THEN b_live \cup {[addr |-> r.addr, size |-> l.size,
                                           align |-> l.align]}
                        ELSE b_live
    /\ UNCHANGED b_region

\* BuddyAllocator::dealloc of a live block with its layout
BuddyDealloc ==
    /\ BuddyStep
    /\ \E b \in b_live :
       LET order == layout_order(b.size, b.align)
           n == buddy_dealloc(BuddySt, b.addr, order)
       IN  /\ free_lists' = n.lists
           /\ bmem' = n.mem
           /\ b_live' = b_live \ {b}
           /\ b_ret' = BRet("free", order, b.addr, "ok")
    /\ UNCHANGED <<b_region, b_status>>

NextBuddy == BuddyInit \/ BuddyAlloc \/ BuddyDealloc

----------------------------------------------------------------------------
(* Page tables: the four-level walk of memory::map_single_page *)

\* let-binding of a value that is computed once
With(v, F(_)) == F(v)

\* index bits per level (9 on the machine) and entries per table (512)
IdxBits == 2
TableEntries == 2^IdxBits

\* translated address bits (48) and the width of a virtual address (64)
VaBits == 12 + 4 * IdxBits
VWord == 2^(VaBits + 2)

\* an address the CPU translates: bits 47 and up are all equal
Canonical(addr) ==
    addr < 2^(VaBits - 1) \/ (addr >= VWord - 2^(VaBits - 1) /\ addr < VWord)

\* x86_64::VirtAddr::new: canonical addresses pass; an address whose only
\* high bit is bit 47 is sign-extended by the older crate and rejected with a
\* panic by the newer one; every other address panics
VirtAddr_new(addr) ==
    IF Canonical(addr) THEN [ok |-> TRUE, va |-> addr]
    ELSE IF addr < 2^VaBits /\ virt_sign_extend
    THEN [ok |-> TRUE, va |-> addr + (VWord - 2^VaBits)]
    ELSE [ok |-> FALSE, va |-> 0]

\* Page::p4_index .. p1_index: level 4 is the root
p_index(virt, level) ==
    (virt \div (FrameSize * TableEntries^(level - 1))) % TableEntries

\* the page whose four indices are i4, i3, i2, i1
VA(i4, i3, i2, i1) ==
    LET low == FrameSize * (((i4 * TableEntries + i3) * TableEntries + i2)
                             * TableEntries + i1)
    IN  IF i4 >= TableEntries \div 2 THEN low + (VWord - 2^VaBits) ELSE low

\* a page-table entry: the frame address and the flag bits
PRESENT == "P"
WRITABLE == "W"
USER_ACCESSIBLE == "U"
NO_EXECUTE == "NX"
HUGE_PAGE == "HUGE"
Entry(addr, flags) == [addr |-> addr, flags |-> flags]
ZeroEntry == Entry(0, {})
ZeroTable == [i \in 0..(TableEntries - 1) |-> ZeroEntry]

\* PageTableEntry::is_unused
is_unused(e) == e = ZeroEntry

\* PageTableEntry::frame: Err(FrameNotPresent), Err(HugeFrame) or the frame
entry_frame(e) ==
    IF PRESENT \notin e.flags THEN [ok |-> FALSE, frame |-> 0]
    ELSE IF HUGE_PAGE \in e.flags THEN [ok |-> FALSE, frame |-> 0]
    ELSE [ok |-> TRUE, frame |-> e.addr]

\* what a frame holds before anything has written to it: whatever its last
\* user left there, here entries that look present
BootRoot == KernelStart + FrameSize
StaleTable == [i \in 0..(TableEntries - 1) |-> Entry(BootRoot, {PRESENT, WRITABLE})]

\* access_page_table: the table stored in a frame; set_entry / set_table
\* write through it
Tab(pt, f) == IF f \in DOMAIN pt THEN pt[f] ELSE StaleTable
set_table(pt, f, t) == (f :> t) @@ pt
set_entry(pt, f, idx, e) == set_table(pt, f, [Tab(pt, f) EXCEPT ![idx] = e])

\* Cr3::read: the active root is the one the bootloader installed
Cr3 == BootRoot

\* the tables the bootloader hands over; the kernel is mapped in the upper
\* half, and the lower half is empty, holds a mapped page at the start of the
\* mmap area, or holds a 2 MiB page and a swapped-out entry there
KernelP3 == KernelStart + 2 * FrameSize
BootP3 == KernelStart + 3 * FrameSize
BootP2 == KernelStart + 4 * FrameSize
BootP1 == KernelStart + 5 * FrameSize
BootData == KernelStart + 6 * FrameSize
BootKernelOnly ==
    (BootRoot :> [ZeroTable EXCEPT ![TableEntries - 1] =
                     Entry(KernelP3, {PRESENT, WRITABLE})])
    @@ (KernelP3 :> ZeroTable)
BootLower(p2tab, p1tab) ==
    (BootRoot :> [ZeroTable EXCEPT
                    ![0] = Entry(BootP3, {PRESENT, WRITABLE, USER_ACCESSIBLE}),
                    ![TableEntries - 1] = Entry(KernelP3, {PRESENT, WRITABLE})])
    @@ (KernelP3 :> ZeroTable)
    @@ (BootP3 :> [ZeroTable EXCEPT ![0] =
                     Entry(BootP2, {PRESENT, WRITABLE, USER_ACCESSIBLE,
                                    NO_EXECUTE})])
    @@ (BootP2 :> p2tab)
    @@ (BootP1 :> p1tab)
BootTables ==
    { BootKernelOnly,
      BootLower([ZeroTable EXCEPT ![2] = Entry(BootP1, {PRESENT, WRITABLE})],
                [ZeroTable EXCEPT ![0] = Entry(BootData, {PRESENT, WRITABLE})]),
      BootLower([ZeroTable EXCEPT
                   ![2] = Entry(BootData, {PRESENT, WRITABLE, HUGE_PAGE}),
                   ![3] = Entry(BootData, {WRITABLE})],
                ZeroTable) }

\* the state a paging call works on: the tables, the two frame cursors, the
\* frames it took, and whether it linked a table that was not all zero
PageSt ==
    [pt |-> ptab, gnext |-> g_next, gend |-> g_end, snext |-> s_next,
     stale |-> stale_link, took |-> << >>]

\* allocate_frame(): GlobalFrameAllocator run by one context
allocate_frame(ps) ==
    LET t == global_frame_attempt(ps.gnext, ps.gend) IN
    IF t.res = "null" THEN [ok |-> FALSE, frame |-> 0, ps |-> ps]
    ELSE [ok |-> TRUE, frame |-> t.aligned,
          ps |-> [ps EXCEPT !.gnext = t.new,
                            !.took = Append(ps.took, [by |-> "global", addr |-> t.aligned])]]

\* ptr::write_bytes(new_table, 0, 4096) left out
zero_new_table_skipped(pt, frame) == pt

\* ptr::write_bytes(new_table, 0, 4096) / zero_frame
zero_new_table(pt, frame) == set_table(pt, frame, ZeroTable)

\* parent_flags of map_single_page
parent_flags == {PRESENT, WRITABLE}

\* one intermediate level of a walk that fills an unused entry and leaves a
\* present parent as it finds it
walk_level_keeps_parent(ps, table, idx, flags) ==
    LET e == Tab(ps.pt, table)[idx] IN
    IF is_unused(e)
    THEN LET a == allocate_frame(ps) IN
         IF ~a.ok THEN [ps |-> ps, res |-> "OutOfMemory", next |-> 0]
         ELSE [ps |-> [a.ps EXCEPT
                         !.pt = set_entry(zero_new_table(a.ps.pt, a.frame),
                                          table, idx,
                                          Entry(a.frame, parent_flags))],
               res |-> "Ok", next |-> a.frame]
    ELSE IF ~entry_frame(e).ok THEN [ps |-> ps, res |-> "WalkError", next |-> 0]
    ELSE [ps |-> ps, res |-> "Ok", next |-> e.addr]

\* one intermediate level of map_single_page: fill an unused entry with a new
\* zeroed table, or clear NO_EXECUTE on a present parent, then read the frame
\* of the next table; res is "Ok", "OutOfMemory" or "WalkError"
walk_level(ps, table, idx, flags) ==
    LET e == Tab(ps.pt, table)[idx] IN
    IF is_unused(e)
    THEN LET a == allocate_frame(ps) IN
         IF ~a.ok THEN [ps |-> ps, res |-> "OutOfMemory", next |-> 0]
         ELSE LET zeroed == zero_new_table(a.ps.pt, a.frame)
                  linked == set_entry(zeroed, table, idx,
                                      Entry(a.frame, parent_flags))
              IN  [ps |-> [a.ps EXCEPT
                             !.pt = linked,
                             !.stale = ps.stale
                                       \/ Tab(zeroed, a.frame) # ZeroTable],
                   res |-> "Ok", next |-> a.frame]
    ELSE IF NO_EXECUTE \in e.flags /\ NO_EXECUTE \notin flags
    THEN IF ~entry_frame(e).ok THEN [ps |-> ps, res |-> "WalkError", next |-> 0]
         ELSE [ps |-> [ps EXCEPT !.pt = set_entry(ps.pt, table, idx,
                                                  Entry(e.addr, parent_flags))],
               res |-> "Ok", next |-> e.addr]
    ELSE IF ~entry_frame(e).ok THEN [ps |-> ps, res |-> "WalkError", next |-> 0]
    ELSE [ps |-> ps, res |-> "Ok", next |-> e.addr]

\* the leaf write of map_single_page with the flags as given
set_leaf_as_given(pt, table, idx, frame, flags) ==
    set_entry(pt, table, idx, Entry(frame, flags))

\* p1_entry.set_frame(frame, flags | PRESENT)
set_leaf(pt, table, idx, frame, flags) ==
    set_entry(pt, table, idx, Entry(frame, flags \cup {PRESENT}))

\* memory::map_single_page; "panic" is the assertion of set_frame on a leaf
\* that asks for HUGE_PAGE
map_single_page(ps, virt, frame, flags) ==
    IF virt % FrameSize # 0 THEN [ps |-> ps, res |-> "InvalidAddress"]
    ELSE
    LET l4 == walk_level(ps, Cr3, p_index(virt, 4), flags) IN
    IF l4.res # "Ok" THEN [ps |-> l4.ps, res |-> l4.res] ELSE
    LET l3 == walk_level(l4.ps, l4.next, p_index(virt, 3), flags) IN
    IF l3.res # "Ok" THEN [ps |-> l3.ps, res |-> l3.res] ELSE
    LET l2 == walk_level(l3.ps, l3.next, p_index(virt, 2), flags) IN
    IF l2.res # "Ok" THEN [ps |-> l2.ps, res |-> l2.res] ELSE
    IF HUGE_PAGE \in flags THEN [ps |-> l2.ps, res |-> "panic"]
    ELSE [ps |-> [l2.ps EXCEPT !.pt = set_leaf(l2.ps.pt, l2.next,
                                               p_index(virt, 1), frame, flags)],
          res |-> "Ok"]

\* the entry a walk of the tables from the active root ends at: the leaf, or
\* ZeroEntry when a level is unused or its frame cannot be read
leaf_entry(pt, virt) ==
    LET e4 == Tab(pt, Cr3)[p_index(virt, 4)] IN
    IF is_unused(e4) \/ ~entry_frame(e4).ok THEN ZeroEntry ELSE
    LET e3 == Tab(pt, e4.addr)[p_index(virt, 3)] IN
    IF is_unused(e3) \/ ~entry_frame(e3).ok THEN ZeroEntry ELSE
    LET e2 == Tab(pt, e3.addr)[p_index(virt, 2)] IN
    IF is_unused(e2) \/ ~entry_frame(e2).ok THEN ZeroEntry ELSE
    Tab(pt, e2.addr)[p_index(virt, 1)]

\* memory::page_is_mapped
page_is_mapped(pt, virt) ==
    LET e == leaf_entry(pt, virt) IN ~is_unused(e) /\ PRESENT \in e.flags

\* zero_frame
zero_frame(pt, frame) == set_table(pt, frame, ZeroTable)

\* usize / u64 addition as the build performs it: "panic" with overflow
\* checks, wrapped without
vadd(a, b) ==
    IF a + b < VWord THEN [ok |-> TRUE, v |-> a + b]
    ELSE IF overflow_checks THEN [ok |-> FALSE, v |-> 0]
    ELSE [ok |-> TRUE, v |-> (a + b) % VWord]

\* a cursor that a failed or successful call leaves where it was
fetch_add_discarded(cursor, n) == cursor

\* AtomicU64::fetch_add: the value the cursor holds afterwards (wrapping)
fetch_add(cursor, n) == (cursor + n) % VWord

\* prot & bit != 0, for bit a power of two
prot_has(prot, bit) == (prot \div bit) % 2 = 1

\* memory::sys_mmap, flags from prot
mmap_flags(prot) ==
    {PRESENT} \cup (IF prot_has(prot, 2) THEN {WRITABLE} ELSE {})
              \cup (IF prot_has(prot, 4) THEN {} ELSE {NO_EXECUTE})

\* the initial value of memory::NEXT_MMAP_ADDR (4 MiB): P2 index 2
MmapStart == 2 * TableEntries * FrameSize

\* memory::sys_mmap, the loop over the pages from page i on; pages lists the
\* pages mapped so far
RECURSIVE mmap_loop(_, _, _, _, _, _)
mmap_loop(ps, virt_addr, i, page_count, flags, pages) ==
    IF i >= page_count THEN [ps |-> ps, res |-> "Ok", pages |-> pages]
    ELSE
    LET sum == vadd(virt_addr, i * FrameSize)
        pv == VirtAddr_new(sum.v)
    IN
    IF ~sum.ok \/ ~pv.ok THEN [ps |-> ps, res |-> "panic", pages |-> pages]
    ELSE
    With(allocate_frame(ps), LAMBDA a :
    IF ~a.ok THEN [ps |-> ps, res |-> "NoMemory", pages |-> pages]
    ELSE
    With(map_single_page([a.ps EXCEPT !.pt = zero_frame(a.ps.pt, a.frame)],
                         pv.va, a.frame, flags), LAMBDA m :
    IF m.res = "panic" THEN [ps |-> m.ps, res |-> "panic", pages |-> pages]
    ELSE IF m.res # "Ok" THEN [ps |-> m.ps, res |-> "NoMemory", pages |-> pages]
    ELSE mmap_loop(m.ps, virt_addr, i + 1, page_count, flags,
                   Append(pages, [virt |-> pv.va, frame |-> a.frame]))))

\* memory::sys_mmap(addr, length, prot, ..): cursor is NEXT_MMAP_ADDR
sys_mmap(ps, cursor, addr, length, prot) ==
    LET none == [ps |-> ps, cursor |-> cursor, ret |-> 0, pages |-> << >>] IN
    IF length = 0 THEN none @@ [res |-> "InvalidArgument"]
    ELSE
    LET sum == vadd(length, 4095) IN
    IF ~sum.ok THEN none @@ [res |-> "panic"]
    ELSE
    LET page_count == sum.v \div 4096
        actual_size == page_count * 4096
        virt_addr == IF addr # 0 THEN addr - (addr % 4096) ELSE cursor
        cursor2 == IF addr # 0 THEN cursor
                   ELSE fetch_add(cursor, actual_size)
    IN  With(mmap_loop(ps, virt_addr, 0, page_count, mmap_flags(prot), << >>),
             LAMBDA r :
             [ps |-> r.ps, cursor |-> cursor2, res |-> r.res,
              ret |-> IF r.res = "Ok" THEN virt_addr ELSE 0,
              pages |-> r.pages])

\* memory::sys_pstart, code_virt: the start of the process code window
code_virt == MmapStart

\* memory::sys_pstart, the loop for i in 0..page_count
RECURSIVE pstart_loop(_, _, _, _)
pstart_loop(ps, i, page_count, pages) ==
    IF i >= page_count THEN [ps |-> ps, res |-> "Ok", pages |-> pages]
    ELSE
    LET pv == VirtAddr_new(code_virt + i * 4096) IN
    IF ~pv.ok THEN [ps |-> ps, res |-> "panic", pages |-> pages]
    ELSE
    With(allocate_frame(ps), LAMBDA a :
    IF ~a.ok THEN [ps |-> ps, res |-> "Err", pages |-> pages]
    ELSE
    With(map_single_page([a.ps EXCEPT !.pt = zero_frame(a.ps.pt, a.frame)],
                         pv.va, a.frame, {PRESENT, WRITABLE}), LAMBDA m :
    IF m.res = "panic" THEN [ps |-> m.ps, res |-> "panic", pages |-> pages]
    ELSE IF m.res # "Ok" THEN [ps |-> m.ps, res |-> "Err", pages |-> pages]
    ELSE pstart_loop(m.ps, i + 1, page_count,
                     Append(pages, [virt |-> pv.va, frame |-> a.frame]))))

\* memory::sys_pstart(code_ptr, code_size): pid is NEXT_PID
sys_pstart(ps, pid, code_ptr, code_size) ==
    IF code_ptr = 0 \/ code_size = 0
    THEN [ps |-> ps, pid |-> pid, res |-> "Err", ret |-> 0, pages |-> << >>]
    ELSE
    LET page_count == (code_size + 4095) \div 4096 IN
    With(pstart_loop(ps, 0, page_count, << >>), LAMBDA r :
         [ps |-> r.ps, pid |-> IF r.res = "Ok" THEN pid + 1 ELSE pid,
          res |-> r.res, ret |-> IF r.res = "Ok" THEN pid ELSE 0,
          pages |-> r.pages])

\* memory::sys_munmap(addr, length)
sys_munmap(ps, addr, length) ==
    IF length = 0 \/ addr % 4096 # 0
    THEN [ps |-> ps, res |-> "InvalidArgument"]
    ELSE [ps |-> ps, res |-> "Ok"]

\* memory::create_process_page_table without the copy of the upper half
copy_upper_half_skipped(pt, new_frame) == pt

\* memory::create_process_page_table, the loop for i in 256..512
copy_upper_half(pt, new_frame) ==
    set_table(pt, new_frame,
              [i \in 0..(TableEntries - 1) |->
                  IF i >= TableEntries \div 2 THEN Tab(pt, Cr3)[i]
                  ELSE Tab(pt, new_frame)[i]])

\* memory::create_process_page_table
create_process_page_table(ps) ==
    LET a == allocate_frame(ps) IN
    IF ~a.ok THEN [ps |-> ps, res |-> "Err", frame |-> 0]
    ELSE [ps |-> [a.ps EXCEPT !.pt = copy_upper_half(zero_frame(a.ps.pt, a.frame),
                                                     a.frame)],
          res |-> "Ok", frame |-> a.frame]

----------------------------------------------------------------------------
(* syscalls::handlers::memory: the syscalls behind the dispatcher, on top of
   x86_64::OffsetPageTable and SimpleFrameAllocator *)

\* SimpleFrameAllocator::allocate_frame run by one context
simple_allocate_frame(ps) ==
    LET t == simple_frame_attempt(ps.snext) IN
    IF t.res = "null" THEN [ok |-> FALSE, frame |-> 0, ps |-> ps]
    ELSE [ok |-> TRUE, frame |-> t.aligned,
          ps |-> [ps EXCEPT !.snext = t.new,
                            !.took = Append(ps.took, [by |-> "simple", addr |-> t.aligned])]]

\* OffsetPageTable, create_next_table as called by map_to: an unused entry is
\* pointed at a new frame, which is zeroed after that; a used entry only
\* gains the missing parent flags
create_next_table(ps, table, idx, insert_flags) ==
    LET e == Tab(ps.pt, table)[idx] IN
    IF is_unused(e)
    THEN LET a == simple_allocate_frame(ps) IN
         IF ~a.ok THEN [ps |-> ps, res |-> "FrameAllocationFailed", next |-> 0]
         ELSE [ps |-> [a.ps EXCEPT !.pt =
                          zero_frame(set_entry(a.ps.pt, table, idx,
                                               Entry(a.frame, insert_flags)),
                                     a.frame)],
               res |-> "Ok", next |-> a.frame]
    ELSE
    LET e2 == Entry(e.addr, e.flags \cup insert_flags)
        pt2 == set_entry(ps.pt, table, idx, e2)
    IN  IF HUGE_PAGE \in e2.flags /\ PRESENT \in e2.flags
        THEN [ps |-> [ps EXCEPT !.pt = pt2], res |-> "ParentEntryHugePage",
              next |-> 0]
        ELSE IF PRESENT \notin e2.flags
        THEN [ps |-> [ps EXCEPT !.pt = pt2], res |-> "panic", next |-> 0]
        ELSE [ps |-> [ps EXCEPT !.pt = pt2], res |-> "Ok", next |-> e.addr]

\* Mapper::map_to(page, frame, flags, allocator) of OffsetPageTable
map_to(ps, virt, frame, flags) ==
    LET pf == flags \cap {PRESENT, WRITABLE, USER_ACCESSIBLE}
        l4 == create_next_table(ps, Cr3, p_index(virt, 4), pf)
    IN
    IF l4.res # "Ok" THEN [ps |-> l4.ps, res |-> l4.res] ELSE
    LET l3 == create_next_table(l4.ps, l4.next, p_index(virt, 3), pf) IN
    IF l3.res # "Ok" THEN [ps |-> l3.ps, res |-> l3.res] ELSE
    LET l2 == create_next_table(l3.ps, l3.next, p_index(virt, 2), pf) IN
    IF l2.res # "Ok" THEN [ps |-> l2.ps, res |-> l2.res] ELSE
    IF ~is_unused(Tab(l2.ps.pt, l2.next)[p_index(virt, 1)])
    THEN [ps |-> l2.ps, res |-> "PageAlreadyMapped"]
    ELSE [ps |-> [l2.ps EXCEPT !.pt = set_entry(l2.ps.pt, l2.next,
                                                p_index(virt, 1),
                                                Entry(frame, flags))],
          res |-> "Ok"]

\* Mapper::unmap(page) of OffsetPageTable: clears the leaf when the walk
\* reaches a present one
unmap(pt, virt) ==
    LET e4 == Tab(pt, Cr3)[p_index(virt, 4)] IN
    IF ~entry_frame(e4).ok THEN [pt |-> pt, ok |-> FALSE] ELSE
    LET e3 == Tab(pt, e4.addr)[p_index(virt, 3)] IN
    IF ~entry_frame(e3).ok THEN [pt |-> pt, ok |-> FALSE] ELSE
    LET e2 == Tab(pt, e3.addr)[p_index(virt, 2)] IN
    IF ~entry_frame(e2).ok THEN [pt |-> pt, ok |-> FALSE] ELSE
    LET e1 == Tab(pt, e2.addr)[p_index(virt, 1)] IN
    IF ~entry_frame(e1).ok THEN [pt |-> pt, ok |-> FALSE]
    ELSE [pt |-> set_entry(pt, e2.addr, p_index(virt, 1), ZeroEntry),
          ok |-> TRUE]

\* the initial value of handlers NEXT_VIRT_ADDR (0x8000_0000_0000) and the
\* limit sys_mmap compares with (0xFFFF_8000_0000_0000)
VirtStart == 2^(VaBits - 1)
VirtLimit == VWord - 2^(VaBits - 1)

\* handlers sys_mmap, flags from prot
h_mmap_flags(prot) ==
    {PRESENT, USER_ACCESSIBLE}
       \cup (IF prot_has(prot, 2) THEN {WRITABLE} ELSE {})
       \cup (IF prot_has(prot, 4) THEN {} ELSE {NO_EXECUTE})

\* handlers sys_mmap, the loop over Page::range_inclusive from page i on
RECURSIVE h_mmap_loop(_, _, _, _, _, _)
h_mmap_loop(ps, start_va, i, count, flags, pages) ==
    IF i >= count THEN [ps |-> ps, res |-> "Ok", pages |-> pages]
    ELSE
    With(simple_allocate_frame(ps), LAMBDA a :
    IF ~a.ok THEN [ps |-> ps, res |-> "NoMemory", pages |-> pages]
    ELSE
    With(map_to(a.ps, start_va + i * FrameSize, a.frame, flags), LAMBDA m :
    IF m.res = "panic" THEN [ps |-> m.ps, res |-> "panic", pages |-> pages]
    ELSE IF m.res # "Ok" THEN [ps |-> m.ps, res |-> "NoMemory", pages |-> pages]
    ELSE h_mmap_loop([m.ps EXCEPT !.pt = zero_frame(m.ps.pt, a.frame)],
                     start_va, i + 1, count, flags,
                     Append(pages, [virt |-> start_va + i * FrameSize,
                                    frame |-> a.frame]))))

\* the number of pages of Page::range_inclusive(start, end)
range_count(start_va, end_va) ==
    IF end_va < start_va THEN 0
    ELSE (end_va - (end_va % FrameSize) - (start_va - (start_va % FrameSize)))
            \div FrameSize + 1

\* handlers sys_mmap(addr, length, prot, ..): cursor is NEXT_VIRT_ADDR
h_sys_mmap(ps, cursor, addr, length, prot) ==
    LET none == [ps |-> ps, cursor |-> cursor, ret |-> 0, pages |-> << >>] IN
    IF length = 0 THEN none @@ [res |-> "InvalidArgument"]
    ELSE
    LET sum == vadd(length, 4095) IN
    IF ~sum.ok THEN none @@ [res |-> "panic"]
    ELSE
    LET page_count == sum.v \div 4096
        actual_size == page_count * 4096
        virt_addr == IF addr # 0 THEN addr - (addr % 4096) ELSE cursor
        cursor2 == IF addr # 0 THEN cursor
                   ELSE fetch_add(cursor, actual_size)
        moved == [none EXCEPT !.cursor = cursor2]
        top == vadd(virt_addr, actual_size)
    IN
    IF ~top.ok THEN moved @@ [res |-> "panic"]
    ELSE IF virt_addr = 0 \/ top.v > VirtLimit THEN moved @@ [res |-> "NoMemory"]
    ELSE
    LET sp == VirtAddr_new(virt_addr)
        ep == VirtAddr_new(virt_addr + actual_size - 1)
    IN
    IF ~sp.ok \/ ~ep.ok THEN moved @@ [res |-> "panic"]
    ELSE
    With(h_mmap_loop(ps, sp.va, 0, range_count(sp.va, ep.va),
                     h_mmap_flags(prot), << >>),
         LAMBDA r :
         [ps |-> r.ps, cursor |-> cursor2, res |-> r.res,
          ret |-> IF r.res = "Ok" THEN virt_addr ELSE 0, pages |-> r.pages])

\* handlers sys_munmap, the loop over the pages
RECURSIVE h_munmap_loop(_, _, _, _)
h_munmap_loop(pt, start_va, i, count) ==
    IF i >= count THEN pt
    ELSE h_munmap_loop(unmap(pt, start_va + i * FrameSize).pt, start_va,
                       i + 1, count)

\* handlers sys_munmap(addr, length)
h_sys_munmap(ps, addr, length) ==
    IF length = 0 \/ addr % 4096 # 0
    THEN [ps |-> ps, res |-> "InvalidArgument"]
    ELSE
    LET sum == vadd(length, 4095) IN
    IF ~sum.ok THEN [ps |-> ps, res |-> "panic"]
    ELSE
    LET page_count == sum.v \div 4096
        end_addr == vadd(addr, page_count * 4096)
        sp == VirtAddr_new(addr)
        ep == VirtAddr_new(end_addr.v - 1)
    IN
    IF ~end_addr.ok \/ ~sp.ok \/ ~ep.ok THEN [ps |-> ps, res |-> "panic"]
    ELSE [ps |-> [ps EXCEPT !.pt = h_munmap_loop(ps.pt, sp.va, 0,
                                                 range_count(sp.va, ep.va))],
          res |-> "Ok"]

----------------------------------------------------------------------------
(* The paging calls as the kernel and the syscall dispatcher make them *)

\* a frame of device memory that a caller maps (not from an allocator)
DeviceFrame == 3 * KernelStart

MapVirts ==
    { VA(0, 0, 2, 0), VA(0, 0, 2, 1), VA(0, 0, 3, 0), VA(0, 1, 0, 0),
      VA(TableEntries - 1, 0, 0, 0), VA(TableEntries \div 2, 0, 0, 0),
      VA(0, 0, 2, 0) + 8 }
MapFlags ==
    { {WRITABLE, NO_EXECUTE}, {WRITABLE, USER_ACCESSIBLE},
      {PRESENT, HUGE_PAGE} }
\* lengths: none, two pages, the whole lower half above the cursor (more
\* than the frame window holds), and one that overflows when rounded up
MmapLengths(by) ==
    { 0, 4097, VWord - 1 }
       \cup (IF by = "memory" THEN { VirtStart - MmapStart } ELSE {})
\* prot: write only, execute only, write and execute
MmapProts == { 2, 4, 6 }
\* hints: none, one in an area without tables, one below the P3 entry that
\* the bootloader left with NO_EXECUTE
MmapHints == { 0, VA(0, 1, 0, 0) + 5, VA(0, 0, 1, 0) }
\* next to sys_pstart the calls are the ones asm_executor makes: memory::sys_mmap
\* without a hint
MmapModes == {"mmap", "pstart"}
MmapCallers == IF mode = "pstart" THEN {"memory"} ELSE {"memory", "handlers"}
MmapHintsOf(m) == IF m = "pstart" THEN {0} ELSE MmapHints
\* sys_pstart: code_ptr null or not, code_size none, one page, two pages
PstartPtrs == { 0, 1 }
PstartSizes == { 0, 4096, 4097 }

PRet(op, by, virt, len, flags, frame, res, ret, pages) ==
    [op |-> op, by |-> by, virt |-> virt, len |-> len, flags |-> flags,
     frame |-> frame, res |-> res, ret |-> ret, pages |-> pages]

PageInit0 ==
    /\ virt_sign_extend \in (IF mode = "mmap" THEN BOOLEAN ELSE {FALSE})
    /\ ptab \in (IF mode \in PageModes THEN BootTables ELSE {BootKernelOnly})
    /\ mmap_next = MmapStart
    /\ virt_next = VirtStart
    /\ stale_link = FALSE
    /\ procs = {}
    /\ next_pid = 1
    /\ p_ret = PRet("none", "none", 0, 0, {}, 0, "none", 0, << >>)
    /\ p_status = "ready"

\* a paging call may be made once memory::init has run and nothing panicked
PageReady(m) ==
    /\ mode = m
    /\ memory_initialized
    /\ p_status = "ready"
    /\ nops < MaxPageOps

\* the tables, cursors and frames a call leaves behind
SetPageTables(ps, res) ==
    /\ ptab' = ps.pt
    /\ g_next' = ps.gnext
    /\ s_next' = ps.snext
    /\ stale_link' = ps.stale
    /\ f_out' = f_out \cup {ps.took[i] : i \in DOMAIN ps.took}
    /\ p_status' = IF res = "panic" THEN "panicked" ELSE "ready"
    /\ nops' = nops + 1
    /\ UNCHANGED <<mode, overflow_checks, heapvars, cursorvars, casvars,
                   buddyvars, memory_initialized, boot_map, g_start, g_end,
                   f_ret,
                   virt_sign_extend, lockvars, initvars, slabvars, devvars>>

SetPageSt(ps, res) == SetPageTables(ps, res) /\ UNCHANGED brkvars

\* memory::map_single_page called directly (map_range, drivers)
MapSinglePage ==
    /\ PageReady("page")
    /\ \E virt \in MapVirts, flags \in MapFlags :
       LET r == map_single_page(PageSt, virt, DeviceFrame, flags) IN
       /\ SetPageSt(r.ps, r.res)
       /\ p_ret' = PRet("map", "memory", virt, 0, flags, DeviceFrame, r.res,
                        0, << >>)
    /\ UNCHANGED <<mmap_next, virt_next, procs, next_pid>>

\* sys_mmap: memory::sys_mmap for the kernel's own callers, the handlers one
\* for the syscall dispatcher
SysMmap ==
    /\ mode \in MmapModes /\ PageReady(mode)
    /\ \E by \in MmapCallers, addr \in MmapHintsOf(mode), prot \in MmapProts :
       \E length \in MmapLengths(by) :
       With(IF by = "memory"
            THEN sys_mmap(PageSt, mmap_next, addr, length, prot)
            ELSE h_sys_mmap(PageSt, virt_next, addr, length, prot),
            LAMBDA r :
            /\ SetPageSt(r.ps, r.res)
            /\ mmap_next' = IF by = "memory" THEN r.cursor ELSE mmap_next
            /\ virt_next' = IF by = "handlers" THEN r.cursor ELSE virt_next
            /\ p_ret' = PRet("mmap", by, addr, length, prot, 0, r.res, r.ret,
                             r.pages))
    /\ UNCHANGED <<procs, next_pid>>

\* sys_munmap of the range the last successful sys_mmap returned, or of a
\* range chosen freely
SysPstart ==
    /\ PageReady("pstart")
    /\ \E code_ptr \in PstartPtrs, code_size \in PstartSizes :
       With(sys_pstart(PageSt, next_pid, code_ptr, code_size), LAMBDA r :
            /\ SetPageSt(r.ps, r.res)
            /\ next_pid' = r.pid
            /\ p_ret' = PRet("pstart", "memory", code_virt, code_size,
                             {PRESENT, WRITABLE}, 0, r.res, r.ret, r.pages))
    /\ UNCHANGED <<mmap_next, virt_next, procs>>

SysMunmap ==
    /\ PageReady("mmap")
    /\ \E by \in {"memory", "handlers"},
          a \in {IF p_ret.op = "mmap" /\ p_ret.res = "Ok"
                 THEN [addr |-> p_ret.ret, len |-> p_ret.len]
                 ELSE [addr |-> MmapStart, len |-> 4096],
                 [addr |-> MmapStart, len |-> 4096],
                 [addr |-> MmapStart + 8, len |-> 4096],
                 [addr |-> MmapStart, len |-> 0]} :
       With(IF by = "memory" THEN sys_munmap(PageSt, a.addr, a.len)
            ELSE h_sys_munmap(PageSt, a.addr, a.len),
            LAMBDA r :
            /\ SetPageSt(r.ps, r.res)
            /\ p_ret' = PRet("munmap", by, a.addr, a.len, {}, 0, r.res, 0,
                             << >>))
    /\ UNCHANGED <<mmap_next, virt_next, procs, next_pid>>

\* memory::create_process_page_table
CreateProcessPageTable ==
    /\ PageReady("page")
    /\ LET r == create_process_page_table(PageSt) IN
       /\ SetPageSt(r.ps, r.res)
       /\ p_ret' = PRet("create", "memory", 0, 0, {}, r.frame, r.res, 0, << >>)
       /\ procs' = IF r.res = "Ok"
                   THEN procs \cup
                        {[root |-> r.frame,
                          upper |-> [i \in (TableEntries \div 2)
                                            ..(TableEntries - 1) |->
                                        Tab(ptab, Cr3)[i]]]}
                   ELSE procs
    /\ UNCHANGED <<mmap_next, virt_next, next_pid>>

NextPage == MemoryInit \/ MapSinglePage \/ CreateProcessPageTable
NextMmap == MemoryInit \/ SysMmap \/ SysMunmap
NextPstart == MemoryInit \/ SysMmap \/ SysPstart

----------------------------------------------------------------------------
(* sys_brk: the program break *)

\* the heap window of sys_brk (0x4444_4444_0000, 100 * 1024 * 1026 bytes):
\* it starts in the middle of a P1 table and is a whole number of pages
HEAP_START == VA(1, 1, 0, 2)
HEAP_SIZE == 3 * FrameSize

\* the flags sys_brk maps a page with
brk_flags == {PRESENT, WRITABLE, USER_ACCESSIBLE}

\* handlers sys_brk, growing: the loop over Page::range_inclusive from page i
RECURSIVE brk_grow_loop(_, _, _, _)
brk_grow_loop(ps, start_va, i, count) ==
    IF i >= count THEN [ps |-> ps, res |-> "Ok"]
    ELSE
    With(simple_allocate_frame(ps), LAMBDA a :
    IF ~a.ok THEN [ps |-> ps, res |-> "NoMemory"]
    ELSE
    With(map_to(a.ps, start_va + i * FrameSize, a.frame, brk_flags), LAMBDA m :
    IF m.res = "panic" THEN [ps |-> m.ps, res |-> "panic"]
    ELSE IF m.res # "Ok" THEN [ps |-> m.ps, res |-> "NoMemory"]
    ELSE brk_grow_loop(m.ps, start_va, i + 1, count)))

\* handlers sys_brk(addr): brk is PROGRAM_BREAK
h_sys_brk(ps, brk, addr) ==
    IF addr = 0 THEN [ps |-> ps, brk |-> brk, res |-> "Ok", ret |-> brk]
    ELSE IF addr < HEAP_START \/ addr > HEAP_START + HEAP_SIZE
    THEN [ps |-> ps, brk |-> brk, res |-> "Ok", ret |-> brk]
    ELSE IF addr > brk
    THEN With(brk_grow_loop(ps, brk - (brk % FrameSize), 0,
                            range_count(brk, addr - 1)),
              LAMBDA r :
              IF r.res # "Ok"
              THEN [ps |-> r.ps, brk |-> brk, res |-> r.res, ret |-> 0]
              ELSE [ps |-> r.ps, brk |-> addr, res |-> "Ok", ret |-> addr])
    ELSE IF addr < brk
    THEN [ps |-> [ps EXCEPT !.pt = h_munmap_loop(ps.pt, addr - (addr % FrameSize),
                                                 0, range_count(addr, brk - 1))],
          brk |-> addr, res |-> "Ok", ret |-> addr]
    ELSE [ps |-> ps, brk |-> addr, res |-> "Ok", ret |-> addr]

\* memory::sys_brk(addr): brk is its PROGRAM_BREAK
sys_brk(ps, brk, addr) ==
    IF addr = 0 THEN [ps |-> ps, brk |-> brk, res |-> "Ok", ret |-> brk]
    ELSE [ps |-> ps, brk |-> addr, res |-> "Ok", ret |-> addr]

\* targets: the query, one below and one above the window, the two ends of
\* the window, and targets inside it on and off a page boundary
BrkAddrs ==
    { 0, HEAP_START - 1, HEAP_START + HEAP_SIZE + 1, HEAP_START,
      HEAP_START + 100, HEAP_START + FrameSize, HEAP_START + FrameSize + 904,
      HEAP_START + HEAP_SIZE }

KRet(op, by, addr, before, res, ret) ==
    [op |-> op, by |-> by, addr |-> addr, before |-> before, res |-> res,
     ret |-> ret]

BrkInit0 ==
    /\ brk_h = HEAP_START
    /\ brk_m = HEAP_START
    /\ k_ret = KRet("none", "none", 0, 0, "none", 0)

\* sys_brk: the handlers one behind the syscall dispatcher, memory::sys_brk
\* for callers inside the kernel
SysBrk ==
    /\ PageReady("brk")
    /\ \E by \in {"memory", "handlers"}, addr \in BrkAddrs :
       With(IF by = "memory" THEN sys_brk(PageSt, brk_m, addr)
            ELSE h_sys_brk(PageSt, brk_h, addr),
            LAMBDA r :
            /\ SetPageTables(r.ps, r.res)
            /\ brk_m' = IF by = "memory" THEN r.brk ELSE brk_m
            /\ brk_h' = IF by = "handlers" THEN r.brk ELSE brk_h
            /\ k_ret' = KRet("brk", by, addr,
                             IF by = "memory" THEN brk_m ELSE brk_h,
                             r.res, r.ret))
    /\ UNCHANGED <<mmap_next, virt_next, procs, next_pid, p_ret>>

NextBrk == MemoryInit \/ SysBrk

----------------------------------------------------------------------------
(* SpinLock, and the locks taken on the way into the kernel heap *)

\* the locks: LockedHeap.inner (a spin::Mutex), FixedSizeBlockAllocator.lock
\* and the lock of its fallback LinkedListAllocator (both SpinLock)
Locks == {"heap", "fsb", "ll"}
SpinLocks == {"fsb", "ll"}

\* execution contexts: the code of one CPU, an interrupt handler that preempts
\* it, and the code of a second CPU
LockCtxs == {"main", "irq", "cpu2"}

MaxLockCalls == 3
MaxClassBlocks == 1

\* SpinLock::lock: locked.compare_exchange(0, 1) succeeding whatever it finds
lock_cas_reentrant(locked) == [ok |-> TRUE, locked |-> 1]

\* SpinLock::lock: locked.compare_exchange(0, 1, Acquire, Relaxed)
lock_cas(locked) ==
    IF locked = 0 THEN [ok |-> TRUE, locked |-> 1]
    ELSE [ok |-> FALSE, locked |-> locked]

\* SpinLock::lock: the test of the inner loop, locked.load(Relaxed) != 0
lock_spins(locked) == locked # 0

\* SpinLockGuard::drop without the store
unlock_skipped(locked) == locked

\* SpinLock::unlock: locked.store(0, Release), run by SpinLockGuard::drop
unlock(locked) == 0

\* a lock a context is taking or holds: "cas" before the compare-and-swap,
\* "spin" in the inner loop, "body" inside the closure, "drop" once the
\* closure has made its calls and the guard is about to be dropped
LockFrame(l, at) == [lock |-> l, at |-> at]
NoCall == [by |-> "none", op |-> "none", fallback |-> FALSE]

LockInit0 ==
    /\ lk_locked = [l \in Locks |-> 0]
    /\ lk_stack = [c \in LockCtxs |-> << >>]
    /\ lk_call = [c \in LockCtxs |-> NoCall]
    /\ lk_class \in (IF mode = "lock" THEN 0..MaxClassBlocks ELSE {0})

\* the lock actions leave the other subsystems alone
LockRest ==
    UNCHANGED <<mode, overflow_checks, heapvars, cursorvars, framevars,
                casvars, buddyvars, pagevars, initvars, brkvars, slabvars,
                devvars>>

Active(c) == lk_call[c].by # "none"
Top(c) == lk_stack[c][Len(lk_stack[c])]
SetTop(c, f) == [lk_stack EXCEPT ![c][Len(lk_stack[c])] = f]

\* an interrupt handler runs to its end on the CPU it interrupted: the
\* interrupted code does not run while the handler is active
Runs(c) == c # "main" \/ ~Active("irq")

\* a context with a call in progress takes its next step
LockStep(c, at) ==
    /\ mode = "lock"
    /\ Active(c)
    /\ Runs(c)
    /\ Top(c).at = at

\* GlobalAlloc::alloc is called on the kernel heap (LockedHeap) or on a
\* FixedSizeBlockAllocator, for a size that has a class or for one that has
\* none; the interrupt handler's call begins when the interrupt arrives
LockCall ==
    /\ mode = "lock"
    /\ nops < MaxLockCalls
    /\ \E c \in LockCtxs, by \in {"LockedHeap", "FixedSizeBlockAllocator"},
          op \in {"alloc_class", "alloc_bypass"} :
       /\ ~Active(c)
       /\ Runs(c)
       /\ lk_call' = [lk_call EXCEPT ![c] = [by |-> by, op |-> op,
                                             fallback |-> FALSE]]
       /\ lk_stack' = [lk_stack EXCEPT ![c] =
                         << LockFrame(IF by = "LockedHeap" THEN "heap" ELSE "fsb",
                                      "cas") >>]
    /\ nops' = nops + 1
    /\ UNCHANGED <<lk_locked, lk_class>>
    /\ LockRest

\* SpinLock::lock, the compare-and-swap (spin::Mutex::lock has the same loop)
LockCas ==
    \E c \in LockCtxs :
       /\ LockStep(c, "cas")
       /\ LET l == Top(c).lock
              r == lock_cas(lk_locked[l])
          IN  /\ lk_locked' = [lk_locked EXCEPT ![l] = r.locked]
              /\ lk_stack' = SetTop(c, LockFrame(l, IF r.ok THEN "body"
                                                    ELSE "spin"))
       /\ UNCHANGED <<lk_call, lk_class, nops>>
       /\ LockRest

\* SpinLock::lock, one turn of the inner loop
LockSpin ==
    \E c \in LockCtxs :
       /\ LockStep(c, "spin")
       /\ LET l == Top(c).lock IN
          lk_stack' = SetTop(c, LockFrame(l, IF lock_spins(lk_locked[l])
                                             THEN "spin" ELSE "cas"))
       /\ UNCHANGED <<lk_locked, lk_call, lk_class, nops>>
       /\ LockRest

\* the closure run under the lock: LockedHeap::alloc calls the allocator;
\* FixedSizeBlockAllocator::alloc pops the class list or calls the fallback;
\* LinkedListAllocator::alloc works on its free list
LockBody ==
    \E c \in LockCtxs :
       /\ LockStep(c, "body")
       /\ LET l == Top(c).lock
              done == SetTop(c, LockFrame(l, "drop"))
          IN  IF l = "heap"
              THEN /\ lk_stack' = [done EXCEPT ![c] =
                                     Append(@, LockFrame("fsb", "cas"))]
                   /\ UNCHANGED <<lk_call, lk_class>>
              ELSE IF l = "fsb" /\ lk_call[c].op = "alloc_class" /\ lk_class > 0
              THEN /\ lk_stack' = done
                   /\ lk_class' = lk_class - 1
                   /\ UNCHANGED lk_call
              ELSE IF l = "fsb"
              THEN /\ lk_stack' = [done EXCEPT ![c] =
                                     Append(@, LockFrame("ll", "cas"))]
                   /\ lk_call' = [lk_call EXCEPT ![c].fallback = TRUE]
                   /\ UNCHANGED lk_class
              ELSE /\ lk_stack' = done
                   /\ UNCHANGED <<lk_call, lk_class>>
       /\ UNCHANGED <<lk_locked, nops>>
       /\ LockRest

\* SpinLockGuard::drop at the end of with_lock; the call returns when its
\* last lock is released
LockDrop ==
    \E c \in LockCtxs :
       /\ LockStep(c, "drop")
       /\ LET l == Top(c).lock IN
          /\ lk_locked' = [lk_locked EXCEPT ![l] = unlock(lk_locked[l])]
          /\ lk_stack' = [lk_stack EXCEPT ![c] = SubSeq(@, 1, Len(@) - 1)]
          /\ lk_call' = IF Len(lk_stack[c]) = 1
                        THEN [lk_call EXCEPT ![c] = NoCall]
                        ELSE lk_call
       /\ UNCHANGED <<lk_class, nops>>
       /\ LockRest

NextLock == LockCall \/ LockCas \/ LockSpin \/ LockBody \/ LockDrop

----------------------------------------------------------------------------
(* Allocator initialisation: validate_region and the init functions *)

InitKinds == {"bump", "stack", "ll", "fsb", "stackheap"}
MaxInitCalls == 3

\* regions handed to init: two good ones, null starts, an empty one, one that
\* runs past the end of the address space, one too small for a ListNode
InitRegions ==
    { Region(4096, 40), Region(8192, 64), Region(0, 64), Region(0, 0),
      Region(4096, 0), Region(Word - 8, 64), Region(4096, 8) }

\* BumpAllocator::new / StackAllocator::new and LinkedListAllocator::new /
\* FixedSizeBlockAllocator::new
NewCursor == [init |-> 0, start |-> 0, end |-> 0, cur |-> 0]
NewHeap == [init |-> FALSE, head |-> 0, mem |-> << >>,
            heads |-> [i \in 1..Len(BLOCK_SIZES) |-> 0]]

\* BumpAllocator::init / StackAllocator::init on a = [init, start, end, cur]
cursor_init(a, heap_start, heap_size) ==
    IF validate_region(heap_start, heap_size) # "Ok"
    THEN [st |-> a, res |-> validate_region(heap_start, heap_size)]
    ELSE IF a.init # 0 THEN [st |-> a, res |-> "InvalidAddress"]
    ELSE [st |-> [init |-> 1, start |-> heap_start,
                  end |-> heap_start + heap_size, cur |-> heap_start],
          res |-> "Ok"]

\* StackHeapAllocator::init on its stack and heap allocators
stack_heap_init(sa, ha, stack_start, stack_size, heap_start, heap_size) ==
    LET stack_end == checked_add(stack_start, stack_size)
        heap_end == checked_add(heap_start, heap_size)
        same == [stack |-> sa, heap |-> ha]
    IN
    IF stack_end = None \/ heap_end = None THEN same @@ [res |-> "Overflow"]
    ELSE IF \/ (stack_start < heap_end /\ stack_end > heap_start)
            \/ (heap_start < stack_end /\ heap_end > stack_start)
    THEN same @@ [res |-> "InvalidAddress"]
    ELSE
    LET s == cursor_init(sa, stack_start, stack_size) IN
    IF s.res # "Ok" THEN same @@ [res |-> s.res]
    ELSE
    LET h == FsbInit(ha, heap_start, heap_size) IN
    [stack |-> s.st, heap |-> h.st, res |-> h.res]

\* init of the allocator of one kind on the allocators al
allocator_init(al, kind, r, hr) ==
    IF kind = "bump"
    THEN LET x == cursor_init(al.bump, r.start, r.size) IN
         [al |-> [al EXCEPT !.bump = x.st], res |-> x.res]
    ELSE IF kind = "stack"
    THEN LET x == cursor_init(al.stack, r.start, r.size) IN
         [al |-> [al EXCEPT !.stack = x.st], res |-> x.res]
    ELSE IF kind = "ll"
    THEN LET x == LLInit(al.ll, r.start, r.size) IN
         [al |-> [al EXCEPT !.ll = x.st], res |-> x.res]
    ELSE IF kind = "fsb"
    THEN LET x == FsbInit(al.fsb, r.start, r.size) IN
         [al |-> [al EXCEPT !.fsb = x.st], res |-> x.res]
    ELSE LET x == stack_heap_init(al.sh_stack, al.sh_heap, r.start, r.size,
                                  hr.start, hr.size) IN
         [al |-> [al EXCEPT !.sh_stack = x.stack, !.sh_heap = x.heap],
          res |-> x.res]

\* some part of the allocator of a kind is initialised
Initialised(al, kind) ==
    IF kind = "bump" THEN al.bump.init # 0
    ELSE IF kind = "stack" THEN al.stack.init # 0
    ELSE IF kind = "ll" THEN al.ll.init
    ELSE IF kind = "fsb" THEN al.fsb.init
    ELSE al.sh_stack.init # 0 \/ al.sh_heap.init

IRet(op, kind, r, hr, res, was) ==
    [op |-> op, kind |-> kind, start |-> r.start, size |-> r.size,
     hstart |-> hr.start, hsize |-> hr.size, res |-> res, was |-> was]

InitInit0 ==
    /\ i_allocs = [bump |-> NewCursor, stack |-> NewCursor, ll |-> NewHeap,
                   fsb |-> NewHeap, sh_stack |-> NewCursor,
                   sh_heap |-> NewHeap]
    /\ i_ret = IRet("none", "none", Region(0, 0), Region(0, 0), "none", FALSE)

InitStep ==
    /\ mode = "init"
    /\ nops < MaxInitCalls
    /\ nops' = nops + 1
    /\ UNCHANGED <<mode, overflow_checks, heapvars, cursorvars, framevars,
                   casvars, buddyvars, pagevars, lockvars, brkvars, slabvars,
                   devvars>>

\* validate_region(start, size) called on its own
ValidateRegion ==
    /\ InitStep
    /\ \E r \in InitRegions :
       i_ret' = IRet("validate", "none", r, Region(0, 0),
                     validate_region(r.start, r.size), FALSE)
    /\ UNCHANGED i_allocs

\* init of a BumpAllocator, StackAllocator, LinkedListAllocator,
\* FixedSizeBlockAllocator or StackHeapAllocator
AllocatorInit ==
    /\ InitStep
    /\ \E kind \in InitKinds, r \in InitRegions :
       \E hr \in (IF kind = "stackheap" THEN InitRegions ELSE {Region(0, 0)}) :
       LET x == allocator_init(i_allocs, kind, r, hr) IN
       /\ i_allocs' = x.al
       /\ i_ret' = IRet("init", kind, r, hr, x.res, Initialised(i_allocs, kind))

NextInit == ValidateRegion \/ AllocatorInit

----------------------------------------------------------------------------
(* memory::init called again *)

\* memory::init called when it has already run: it has no guard, so it picks
\* the frame window again, stores the cursors, and installs a new
\* FixedSizeBlockAllocator over the same static heap buffer
MemoryInitAgain ==
    /\ mode = "reinit"
    /\ memory_initialized
    /\ hstatus = "ready"
    /\ OpsLeft
    /\ \E bm \in BootMapsOf(mode) :
       LET w == frame_window(bm)
           fresh == [init |-> FALSE, head |-> 0, mem |-> mem,
                     heads |-> [i \in 1..Len(BLOCK_SIZES) |-> 0]]
           r == FsbInit(fresh, HeapStart, HeapSize)
       IN  IF ~w.ok
           THEN /\ f_ret' = FRet("init_again", "none", 0,
                                 "No usable memory found", FALSE)
                /\ UNCHANGED <<ll_init, ll_head, list_heads, mem, hret,
                               memory_initialized, boot_map, g_start, g_end,
                               g_next>>
           ELSE /\ boot_map' = bm
                /\ g_start' = w.start
                /\ g_end' = w.end
                /\ g_next' = w.start
                /\ f_ret' = FRet("init_again", "none", 0, r.res, FALSE)
                /\ hret' = [NoRet EXCEPT !.op = "init", !.status = r.res]
                /\ IF r.res = "Ok"
                   THEN SetHeapSt(r.st) /\ memory_initialized' = TRUE
                   ELSE UNCHANGED <<ll_init, ll_head, list_heads, mem,
                                    memory_initialized>>
    /\ nops' = nops + 1
    /\ UNCHANGED <<mode, overflow_checks, extvars, hlive, hstatus, cursorvars,
                   casvars, buddyvars, s_next, f_out>>

NextReinit == MemoryInit \/ FrameAlloc \/ MemoryInitAgain

----------------------------------------------------------------------------
(* SlabAllocator<SIZE, ALIGN> *)

\* the const parameters of the instances: <<SIZE, ALIGN>>
SlabParams == { <<16, 16>>, <<24, 16>>, <<32, 8>>, <<8, 8>> }

\* the spans handed to add_slab
SlabSpans == { Region(4096, 64), Region(4104, 40), Region(8192, 48) }

\* the layouts asked of the slab allocator
SlabLayouts ==
    Valid({ Layout(0, 1), Layout(0, 8), Layout(8, 8), Layout(16, 16),
            Layout(24, 8), Layout(8, 32), Layout(64, 8) })

MaxSlabOps == 4

\* SlabAllocator::add_slab, the loop for i in 0..num_blocks from block i on,
\* on st = [head, mem]
RECURSIVE add_slab_loop(_, _, _, _, _)
add_slab_loop(st, slab_start, i, num_blocks, SIZE) ==
    IF i >= num_blocks THEN st
    ELSE LET addr == slab_start + i * SIZE IN
         add_slab_loop([head |-> addr, mem |-> Wr(st.mem, addr, st.head)],
                       slab_start, i + 1, num_blocks, SIZE)

\* SlabAllocator::add_slab(slab_start, slab_size)
add_slab(st, slab_start, slab_size, SIZE) ==
    add_slab_loop(st, slab_start, 0, slab_size \div SIZE, SIZE)

\* SlabAllocator::alloc(layout)
slab_alloc(st, size, align, SIZE, ALIGN) ==
    IF size > SIZE \/ align > ALIGN THEN [st |-> st, addr |-> 0]
    ELSE IF st.head # 0
    THEN [st |-> [st EXCEPT !.head = Rd(st.mem, st.head)], addr |-> st.head]
    ELSE [st |-> st, addr |-> 0]

\* SlabAllocator::dealloc(ptr, layout)
slab_dealloc(st, ptr) ==
    IF ptr = 0 THEN st
    ELSE [head |-> ptr, mem |-> Wr(st.mem, ptr, st.head)]

SlabSt == [head |-> sl_head, mem |-> sl_mem]

SRet(op, start, size, align, addr) ==
    [op |-> op, start |-> start, size |-> size, align |-> align,
     addr |-> addr]

SlabInit0 ==
    /\ \E p \in (IF mode = "slab" THEN SlabParams ELSE {<<16, 16>>}) :
          sl_size = p[1] /\ sl_align = p[2]
    /\ sl_head = 0
    /\ sl_mem = << >>
    /\ sl_live = {}
    /\ sl_ret = SRet("none", 0, 0, 0, 0)

SlabStep(st) ==
    /\ sl_head' = st.head
    /\ sl_mem' = st.mem
    /\ nops' = nops + 1
    /\ UNCHANGED <<mode, overflow_checks, heapvars, cursorvars, framevars,
                   casvars, buddyvars, pagevars, lockvars, initvars, brkvars,
                   sl_size, sl_align, devvars>>

\* add_slab on a span no block of which is in use
SlabAddSlab ==
    /\ mode = "slab"
    /\ nops < MaxSlabOps
    /\ \E r \in SlabSpans :
       /\ \A a \in (DOMAIN sl_mem) \cup sl_live :
             a + sl_size <= r.start \/ a >= r.start + r.size
       /\ SlabStep(add_slab(SlabSt, r.start, r.size, sl_size))
       /\ sl_ret' = SRet("add_slab", r.start, r.size, 0, 0)
    /\ UNCHANGED sl_live

\* GlobalAlloc::alloc on the slab allocator
SlabAlloc ==
    /\ mode = "slab"
    /\ nops < MaxSlabOps
    /\ \E l \in SlabLayouts :
       LET r == slab_alloc(SlabSt, l.size, l.align, sl_size, sl_align) IN
       /\ SlabStep(r.st)
       /\ sl_ret' = SRet("alloc", 0, l.size, l.align, r.addr)
       /\ sl_live' = IF r.addr # 0 THEN sl_live \cup {r.addr} ELSE sl_live

\* GlobalAlloc::dealloc of a block that is in use
SlabDealloc ==
    /\ mode = "slab"
    /\ nops < MaxSlabOps
    /\ \E ptr \in sl_live :
       /\ SlabStep(slab_dealloc(SlabSt, ptr))
       /\ sl_ret' = SRet("dealloc", ptr, 0, 0, 0)
       /\ sl_live' = sl_live \ {ptr}

NextSlab == SlabAddSlab \/ SlabAlloc \/ SlabDealloc


----------------------------------------------------------------------------
(* devices::drivers::ps2_keyboard / ps2_mouse_new: the byte ring between the
   interrupt handler (producer) and the polling loop (consumer).  The two
   drivers run the same code; the mouse keeps its indices in an AtomicU8,
   which holds every index below 256 unchanged. *)

\* BUFFER_SIZE (256 in the drivers), scaled
BUFFER_SIZE == 4
MaxRingBytes == 6

\* the k-th enqueue call carries the byte k, so that every byte is told apart
RingBytes == 1..MaxRingBytes

ProdIdle == [pc |-> "idle", head |-> 0, next |-> 0, byte |-> 0]
ConsIdle == [pc |-> "idle", tail |-> 0, sc |-> 0]

RingInit0 ==
    /\ rb_buf = [i \in 0..(BUFFER_SIZE - 1) |-> 0]
    /\ rb_head = 0
    /\ rb_tail = 0
    /\ rb_prod = ProdIdle
    /\ rb_cons = ConsIdle
    /\ rb_in = << >>
    /\ rb_out = << >>
    /\ rb_calls = 0

\* enqueue_scancode: `let head = HEAD.load(Relaxed); let next = ...`
EnqLoadHead ==
    /\ mode = "ring"
    /\ rb_prod.pc = "idle"
    /\ rb_calls < MaxRingBytes
    /\ rb_calls' = rb_calls + 1
    /\ rb_prod' = [pc |-> "tail", head |-> rb_head,
                   next |-> (rb_head + 1) % BUFFER_SIZE,
                   byte |-> rb_calls + 1]
    /\ UNCHANGED <<memvars, schedvars, init_run, rb_buf, rb_head, rb_tail, rb_cons, rb_in, rb_out>>

\* enqueue_scancode without the `if next != tail` test
EnqLoadTail_unchecked ==
    /\ mode = "ring"
    /\ rb_prod.pc = "tail"
    /\ rb_prod' = [rb_prod EXCEPT !.pc = "write"]
    /\ rb_in' = Append(rb_in, rb_prod.byte)
    /\ UNCHANGED <<memvars, schedvars, init_run, rb_buf, rb_head, rb_tail, rb_cons, rb_out, rb_calls>>

\* enqueue_scancode: `let tail = TAIL.load(Acquire); if next != tail`; the
\* byte is dropped when the test fails
EnqLoadTail ==
    /\ mode = "ring"
    /\ rb_prod.pc = "tail"
    /\ IF rb_prod.next # rb_tail
       THEN /\ rb_prod' = [rb_prod EXCEPT !.pc = "write"]
            /\ rb_in' = Append(rb_in, rb_prod.byte)
       ELSE /\ rb_prod' = ProdIdle
            /\ UNCHANGED rb_in
    /\ UNCHANGED <<memvars, schedvars, init_run, rb_buf, rb_head, rb_tail, rb_cons, rb_out, rb_calls>>

\* enqueue_scancode: `RING_BUF[head] = scancode`
EnqWrite ==
    /\ mode = "ring"
    /\ rb_prod.pc = "write"
    /\ rb_buf' = [rb_buf EXCEPT ![rb_prod.head] = rb_prod.byte]
    /\ rb_prod' = [rb_prod EXCEPT !.pc = "store"]
    /\ UNCHANGED <<memvars, schedvars, init_run, rb_head, rb_tail, rb_cons, rb_in, rb_out, rb_calls>>

\* enqueue_scancode: `HEAD.store(next, Release)`
EnqStoreHead ==
    /\ mode = "ring"
    /\ rb_prod.pc = "store"
    /\ rb_head' = rb_prod.next
    /\ rb_prod' = ProdIdle
    /\ UNCHANGED <<memvars, schedvars, init_run, rb_buf, rb_tail, rb_cons, rb_in, rb_out, rb_calls>>

\* dequeue_scancode: `let tail = TAIL.load(Relaxed)`
DeqLoadTail ==
    /\ mode = "ring"
    /\ rb_cons.pc = "idle"
    /\ rb_cons' = [pc |-> "head", tail |-> rb_tail, sc |-> 0]
    /\ UNCHANGED <<memvars, schedvars, init_run, rb_buf, rb_head, rb_tail, rb_prod, rb_in, rb_out,
                   rb_calls>>

\* dequeue_scancode: `let head = HEAD.load(Acquire); if tail == head { None }`
DeqLoadHead ==
    /\ mode = "ring"
    /\ rb_cons.pc = "head"
    /\ rb_cons' = IF rb_cons.tail = rb_head THEN ConsIdle
                  ELSE [rb_cons EXCEPT !.pc = "read"]
    /\ UNCHANGED <<memvars, schedvars, init_run, rb_buf, rb_head, rb_tail, rb_prod, rb_in, rb_out,
                   rb_calls>>

\* dequeue_scancode: `let sc = RING_BUF[tail]`
DeqRead ==
    /\ mode = "ring"
    /\ rb_cons.pc = "read"
    /\ rb_cons' = [rb_cons EXCEPT !.pc = "store", !.sc = rb_buf[rb_cons.tail]]
    /\ UNCHANGED <<memvars, schedvars, init_run, rb_buf, rb_head, rb_tail, rb_prod, rb_in, rb_out,
                   rb_calls>>

\* dequeue_scancode: `TAIL.store(next, Release); Some(sc)`
DeqStoreTail ==
    /\ mode = "ring"
    /\ rb_cons.pc = "store"
    /\ rb_tail' = (rb_cons.tail + 1) % BUFFER_SIZE
    /\ rb_out' = Append(rb_out, rb_cons.sc)
    /\ rb_cons' = ConsIdle
    /\ UNCHANGED <<memvars, schedvars, init_run, rb_buf, rb_head, rb_prod, rb_in, rb_calls>>

NextRing ==
    \/ EnqLoadHead \/ EnqLoadTail \/ EnqWrite \/ EnqStoreHead
    \/ DeqLoadTail \/ DeqLoadHead \/ DeqRead \/ DeqStoreTail

----------------------------------------------------------------------------
(* task::TaskScheduler: cooperative round-robin over a Vec of tasks *)

MaxTasks == 4
MaxRuns == 2

\* a task function that returns Completed from its runs-th execution on and
\* another state before that
TaskRuns == 1..MaxRuns
TaskStates == {"Ready", "Blocked"}

\* Task::new(id, function, name)
Task_new(id, runs) ==
    [id |-> id, state |-> "Ready", iterations |-> 0, runs |-> runs]

\* Task::execute, with r the state the function returns while it is not done
execute(task, r) ==
    [task EXCEPT !.iterations = task.iterations + 1,
                 !.state = IF task.iterations + 1 >= task.runs
                           THEN "Completed" ELSE r]

\* Vec::remove(index), index counted from 0, left undone
remove_skipped(tasks, index) == tasks

\* Vec::remove(index), index counted from 0
remove(tasks, index) ==
    [j \in 1..(Len(tasks) - 1) |->
        IF j <= index THEN tasks[j] ELSE tasks[j + 1]]

\* TaskScheduler::step, the `while attempts < self.tasks.len()` loop; ret 0
\* stands for None
RECURSIVE step_loop(_, _, _)
step_loop(st, attempts, r) ==
    IF attempts >= Len(st.tasks) THEN [st |-> st, ret |-> 0]
    ELSE
    LET current == st.current % Len(st.tasks)
        task == st.tasks[current + 1]
    IN  IF task.state # "Completed"
        THEN LET done == execute(task, r)
                 tasks2 == [st.tasks EXCEPT ![current + 1] = done]
             IN  IF done.state = "Completed"
                 THEN [st |-> [st EXCEPT !.tasks = remove(tasks2, current)],
                       ret |-> task.id]
                 ELSE [st |-> [tasks |-> tasks2,
                               current |-> (current + 1) % Len(tasks2)],
                       ret |-> task.id]
        ELSE step_loop([st EXCEPT !.current = (current + 1) % Len(st.tasks)],
                       attempts + 1, r)

\* TaskScheduler::step
step(st, r) ==
    IF st.tasks = << >> THEN [st |-> st, ret |-> 0]
    ELSE step_loop(st, 0, r)

SchedSt == [tasks |-> sch_tasks, current |-> sch_current]

\* TaskScheduler::new
SchedInit0 ==
    /\ sch_tasks = << >>
    /\ sch_current = 0
    /\ sch_next_id = 1
    /\ sch_pc = "open"
    /\ sch_ret = 0

\* TaskScheduler::spawn
Spawn ==
    /\ mode = "sched"
    /\ sch_pc = "open"
    /\ sch_next_id <= MaxTasks
    /\ \E runs \in TaskRuns :
          sch_tasks' = Append(sch_tasks, Task_new(sch_next_id, runs))
    /\ sch_next_id' = sch_next_id + 1
    /\ UNCHANGED <<memvars, ringvars, init_run, sch_current, sch_pc, sch_ret>>

\* one call of TaskScheduler::step, by the caller or by the loop of run_all
Step ==
    /\ mode = "sched"
    /\ sch_pc \in {"open", "run"}
    /\ sch_pc = "run" => sch_tasks # << >>
    /\ \E r \in TaskStates :
       LET n == step(SchedSt, r) IN
       /\ sch_tasks' = n.st.tasks
       /\ sch_current' = n.st.current
       /\ sch_ret' = n.ret
    /\ UNCHANGED <<memvars, ringvars, init_run, sch_next_id, sch_pc>>

\* TaskScheduler::run_all is entered
RunAll ==
    /\ mode = "sched"
    /\ sch_pc = "open"
    /\ sch_pc' = "run"
    /\ UNCHANGED <<memvars, ringvars, init_run, sch_tasks, sch_current, sch_next_id,
                   sch_ret>>

\* TaskScheduler::run_all finds the list empty and returns
RunAllReturn ==
    /\ mode = "sched"
    /\ sch_pc = "run"
    /\ sch_tasks = << >>
    /\ sch_pc' = "done"
    /\ UNCHANGED <<memvars, ringvars, init_run, sch_tasks, sch_current, sch_next_id,
                   sch_ret>>

NextSched == Spawn \/ Step \/ RunAll \/ RunAllReturn

----------------------------------------------------------------------------
(* BumpAllocator::init / StackAllocator::init running while other contexts
   call alloc: one atomic access of init per step *)

RaceRegions == { Region(4096, LowSize) }

NoInit == [pc |-> "new", start |-> 0, size |-> 0]

RaceInit0 == init_run = NoInit

\* what the stores of init leave alone
RaceRest ==
    UNCHANGED <<mode, overflow_checks, heapvars, framevars, casvars, buddyvars,
                pagevars, lockvars, initvars, brkvars, slabvars, ringvars,
                schedvars, nops, akind, a_blocks, a_lifo, a_ret, a_status>>

\* init: validate_region, then `self.initialized.swap(1, SeqCst)`
InitSwap ==
    /\ mode = "race"
    /\ init_run.pc = "new"
    /\ \E r \in RaceRegions :
       /\ validate_region(r.start, r.size) = "Ok"
       /\ a_init = 0
       /\ a_init' = 1
       /\ init_run' = [pc |-> "start", start |-> r.start, size |-> r.size]
    /\ RaceRest /\ UNCHANGED <<a_start, a_end, a_cur>>

\* init: `self.heap_start.store(heap_start, Release)`
InitStoreStart ==
    /\ mode = "race"
    /\ init_run.pc = "start"
    /\ a_start' = init_run.start
    /\ init_run' = [init_run EXCEPT !.pc = "end"]
    /\ RaceRest /\ UNCHANGED <<a_init, a_end, a_cur>>

\* init: `self.heap_end.store(heap_start + heap_size, Release)`
InitStoreEnd ==
    /\ mode = "race"
    /\ init_run.pc = "end"
    /\ a_end' = init_run.start + init_run.size
    /\ init_run' = [init_run EXCEPT !.pc = "next"]
    /\ RaceRest /\ UNCHANGED <<a_init, a_start, a_cur>>

\* init: `self.next.store(heap_start, Release)`
InitStoreNext ==
    /\ mode = "race"
    /\ init_run.pc = "next"
    /\ a_cur' = init_run.start
    /\ init_run' = [init_run EXCEPT !.pc = "done"]
    /\ RaceRest /\ UNCHANGED <<a_init, a_start, a_end>>

NextRace ==
    \/ InitSwap \/ InitStoreStart \/ InitStoreEnd \/ InitStoreNext
    \/ \E t \in Ctxs : CasCall(t) \/ CasLoad(t) \/ CasSwapOk(t) \/ CasSwapFail(t)

Modes ==
    HeapModes \cup {"seq", "frame", "cas", "buddy"} \cup PageModes
       \cup {"lock", "init", "reinit", "slab", "ring", "sched",
             "race"}

\* After construction nothing is initialised.  A behaviour exercises one
\* subsystem; the build profile and the allocator kind are chosen where they
\* make a difference.
Init ==
    /\ mode \in Modes
    /\ overflow_checks \in (IF mode \in {"seq", "cas", "mmap"} THEN BOOLEAN
                            ELSE {FALSE})
    /\ akind \in (IF mode \in {"seq", "race"} THEN {"bump", "stack"}
                  ELSE IF mode = "cas" THEN {"bump", "stack", "gframe"}
                  ELSE {"bump"})
    /\ nops = 0
    /\ HeapInit0
    /\ CursorInit0
    /\ FrameInit0
    /\ CasInit0
    /\ BuddyInit0
    /\ LockInit0
    /\ InitInit0
    /\ PageInit0
    /\ BrkInit0
    /\ SlabInit0
    /\ RingInit0
    /\ SchedInit0
    /\ RaceInit0

Next ==
    \/ MemoryInit \/ HeapAlloc \/ HeapDealloc
    \/ FrameAlloc
    \/ SeqInit \/ SeqAlloc \/ SeqDealloc \/ SeqReset
    \/ NextCas
    \/ BuddyInit \/ BuddyAlloc \/ BuddyDealloc
    \/ MapSinglePage \/ SysMmap \/ SysMunmap \/ CreateProcessPageTable
    \/ SysPstart
    \/ LockCall \/ LockCas \/ LockSpin \/ LockBody \/ LockDrop
    \/ ValidateRegion \/ AllocatorInit
    \/ MemoryInitAgain
    \/ SysBrk
    \/ SlabAddSlab \/ SlabAlloc \/ SlabDealloc
    \/ NextRing
    \/ NextSched
    \/ InitSwap \/ InitStoreStart \/ InitStoreEnd \/ InitStoreNext

Spec == Init /\ [][Next]_vars

\* the kernel heap under its wide workload
InitHeap == Init /\ mode = "heap"
SpecHeap == InitHeap /\ [][NextHeap]_vars

\* the kernel heap under its narrow workload, run for longer
InitDeep == Init /\ mode = "heapdeep"
SpecDeep == InitDeep /\ [][NextHeap]_vars

\* boot and the two frame allocators
InitFrame == Init /\ mode = "frame"
SpecFrame == InitFrame /\ [][NextFrame]_vars

\* the buddy allocator
InitBuddy == Init /\ mode = "buddy"
SpecBuddy == InitBuddy /\ [][NextBuddy]_vars

\* contexts interleaved inside the retry loops of one instance
InitCas == Init /\ mode = "cas"
SpecCas == InitCas /\ [][NextCas]_vars

\* a fair scheduler: a context inside a retry loop keeps taking steps, and a
\* compare_exchange_weak that finds the expected value again and again does
\* not fail spuriously for ever
CasFair ==
    \A t \in Ctxs :
       /\ WF_vars(CasLoad(t) \/ CasSwapOk(t) \/ CasSwapFail(t))
       /\ SF_vars(CasSwapOk(t))
SpecCasFair == SpecCas /\ CasFair

\* one cursor allocator driven by a single context
InitSeq == Init /\ mode = "seq"
SpecSeq == InitSeq /\ [][NextSeq]_vars

\* the page-table walk and the process root tables
InitPage == Init /\ mode = "page"
SpecPage == InitPage /\ [][NextPage]_vars

\* the address-space syscalls
InitMmap == Init /\ mode = "mmap"
SpecMmap == InitMmap /\ [][NextMmap]_vars
InitPstart == Init /\ mode = "pstart"
SpecPstart == InitPstart /\ [][NextPstart]_vars

\* the locks
InitLock == Init /\ mode = "lock"
SpecLock == InitLock /\ [][NextLock]_vars

\* the init functions of the allocators
InitAllocInit == Init /\ mode = "init"
SpecInit == InitAllocInit /\ [][NextInit]_vars

\* memory::init called more than once
InitReinit == Init /\ mode = "reinit"
SpecReinit == InitReinit /\ [][NextReinit]_vars

\* the program break
InitBrk == Init /\ mode = "brk"
SpecBrk == InitBrk /\ [][NextBrk]_vars

\* the slab allocator
InitSlab == Init /\ mode = "slab"
SpecSlab == InitSlab /\ [][NextSlab]_vars

InitRing == Init /\ mode = "ring"
SpecRing == InitRing /\ [][NextRing]_vars

InitRace == Init /\ mode = "race"
SpecRace == InitRace /\ [][NextRace]_vars

\* run_all is a loop: once entered it keeps calling step and returns when
\* the list is empty
InitSched == Init /\ mode = "sched"
SpecSched == InitSched /\ [][NextSched]_vars
        /\ WF_vars(sch_pc = "run" /\ Step) /\ WF_vars(RunAllReturn)

----------------------------------------------------------------------------
(* Properties *)

\* the free list as the fallback finds it: the headers reached from head,
\* as <<address, size>> pairs, up to the first pointer that is null, leaves
\* the heap or closes a cycle
RECURSIVE FreeListOf(_, _, _)
FreeListOf(node, m, seen) ==
    IF node = 0 \/ ~InHeap(node) \/ node \in seen THEN << >>
    ELSE << <<node, Rd(m, node)>> >>
         \o FreeListOf(Rd(m, node + NextOff), m, seen \cup {node})

\* a class list as pop finds it: the block addresses reached from its head
RECURSIVE ClassListOf(_, _, _)
ClassListOf(p, m, seen) ==
    IF p = 0 \/ p < HeapStart \/ p + BlockNodeSize > HeapEnd \/ p \in seen
    THEN << >>
    ELSE <<p>> \o ClassListOf(Rd(m, p), m, seen \cup {p})

\* the smallest class that holds n bytes, found from the class sizes alone
SmallestClass(n) ==
    CHOOSE i \in 1..Len(BLOCK_SIZES) :
        BLOCK_SIZES[i] >= n /\ (i = 1 \/ BLOCK_SIZES[i - 1] < n)

\* C1: kernel heap, frees of live blocks only: the byte ranges of the live
\* allocations are pairwise disjoint and lie inside the heap region.
C1_LiveDisjointInRegion ==
    /\ \A a, b \in hlive :
          a # b => ~Overlap(a.addr, a.size, b.addr, b.size)
    /\ \A a \in hlive : a.addr >= HeapStart /\ a.addr + a.size <= HeapEnd

\* C2: contexts interleaved at the cursor load and the compare-and-swap of
\* BumpAllocator::alloc, StackAllocator::alloc and GlobalFrameAllocator::
\* allocate_frame: no two successful calls return overlapping ranges.
C2_NoOverlappingReturns == ~c_overlap

\* C3: a non-null address returned by allocate for a request with size > 0
\* and a power-of-two align is a multiple of align (bump, stack, free list,
\* fixed-size blocks).
C3_ReturnedAligned ==
    /\ (hret.op = "alloc" /\ hret.size > 0 /\ hret.addr # 0)
          => hret.addr % hret.align = 0
    /\ (a_ret.op = "alloc" /\ a_ret.size > 0 /\ a_ret.addr # 0)
          => a_ret.addr % a_ret.align = 0

\* C4: bump, stack and frame allocator: region start <= cursor <= region end
\* in every state reached by allocate, free and reset calls, and an allocate
\* that returns failure leaves the cursor where it was.
C4_CursorInRegion ==
    /\ a_init # 0 => (a_start <= a_cur /\ a_cur <= a_end)
    /\ memory_initialized => (g_start <= g_next /\ g_next <= g_end)
    /\ (a_ret.op = "alloc" /\ a_ret.addr = 0) =>
          (a_status = "ready" /\ a_cur = a_ret.before)

\* C5: every frame returned by GlobalFrameAllocator or SimpleFrameAllocator is
\* 4096-aligned and lies inside its allocator's window, and no frame is
\* returned twice.
C5_FramesAlignedInWindowOnce ==
    /\ \A f \in f_out :
          /\ f.addr % FrameSize = 0
          /\ IF f.by = "global"
             THEN g_start <= f.addr /\ f.addr + FrameSize <= g_end
             ELSE PHYSICAL_MEMORY_START <= f.addr
                  /\ f.addr + FrameSize <= PHYSICAL_MEMORY_END
    /\ ~f_ret.dup

\* C5 witness: both allocators have handed out frames, the global one from a
\* window that does not start on a frame boundary, and it is now exhausted
C5_Witness ==
    /\ f_ret.op = "alloc" /\ f_ret.by = "global" /\ f_ret.status = "null"
    /\ g_start % FrameSize # 0
    /\ \E f \in f_out : f.by = "global"
    /\ \E f \in f_out : f.by = "simple"

\* C6: StackAllocator: while blocks are freed in exact reverse allocation
\* order, freeing the most recent one brings the cursor back to the value it
\* had before that block was allocated (so freeing all of them restores c).
C6_ReverseFreeRestores ==
    [][(akind = "stack" /\ a_lifo /\ a_ret'.op = "free" /\ nops' # nops
          /\ a_ret'.status = "last")
         => a_cur' = a_blocks[Len(a_blocks)].before]_vars

HeapAllocStep ==
    /\ nops' # nops
    /\ hret'.op = "alloc"
    /\ memory_initialized
    /\ hstatus' = "ready"

\* the call was served from the smallest class that holds max(size, align):
\* popped from the class list if that was non-empty, else carved from the
\* fallback with the class size as size and alignment
ServedByClass ==
    LET c == SmallestClass(Max(hret'.size, hret'.align)) IN
    /\ hret'.idx = c
    /\ IF list_heads[c] # 0
       THEN /\ hret'.src = "pop"
            /\ hret'.addr = list_heads[c]
            /\ list_heads' = [list_heads EXCEPT ![c] = Rd(mem, list_heads[c])]
       ELSE /\ hret'.src = "carve"
            /\ list_heads' = list_heads
            /\ hret'.addr = LLAlloc(HeapSt, BLOCK_SIZES[c], BLOCK_SIZES[c]).addr

\* the call went past the class lists to the fallback with its own layout
ServedByFallback ==
    /\ hret'.src = "fallback"
    /\ list_heads' = list_heads
    /\ hret'.addr = LLAlloc(HeapSt, hret'.size, hret'.align).addr

\* C8 as stated: every request with 0 < max(size, align) <= 2048 is served
\* from the smallest class >= max(size, align) (pop, else carve), every
\* request with max(size, align) > 2048 by the fallback with its own layout.
C8_EveryRequestServed ==
    [][HeapAllocStep =>
         IF Max(hret'.size, hret'.align) <= 2048 THEN ServedByClass
         ELSE ServedByFallback]_vars

\* C8 amended: the dispatch holds for requests of size > 0; a request of size
\* 0 returns null and changes neither the class lists nor the fallback.
C8_Dispatch ==
    [][HeapAllocStep =>
         IF hret'.size = 0
         THEN hret'.addr = 0 /\ UNCHANGED <<list_heads, ll_head, mem>>
         ELSE IF Max(hret'.size, hret'.align) <= 2048 THEN ServedByClass
         ELSE ServedByFallback]_vars

\* C8 witness: a request whose alignment decides its class was popped from
\* that class's list
C8_Witness ==
    /\ hret.op = "alloc" /\ hret.src = "pop" /\ hret.addr # 0
    /\ hret.size < hret.align
    /\ hret.idx = SmallestClass(hret.align)

\* C9: after free(p, layout) into class c, p is the head of class c's list,
\* no other class list and not the fallback's free list has changed, and the
\* next allocate (size > 0) that maps to class c returns p.
C9_FreeIntoClass ==
    [][/\ (nops' # nops /\ hret'.op = "free" /\ hret'.idx # 0) =>
            /\ list_heads'[hret'.idx] = hret'.addr
            /\ \A i \in (1..Len(BLOCK_SIZES)) \ {hret'.idx} :
                  ClassListOf(list_heads'[i], mem', {})
                     = ClassListOf(list_heads[i], mem, {})
            /\ FreeListOf(ll_head', mem', {}) = FreeListOf(ll_head, mem, {})
       /\ (nops' # nops /\ hret.op = "free" /\ hret.idx # 0
             /\ hret'.op = "alloc" /\ hret'.size > 0 /\ hret'.idx = hret.idx) =>
            hret'.addr = hret.addr]_vars

\* C10: after init over exactly 2^(k+1) bytes, an allocation of order k
\* succeeds and returns one of the two halves of the region.
C10_HalfAfterInit ==
    (b_ret.op = "alloc" /\ nops = 2
       /\ b_region.size = 2 * order_to_size(b_ret.order))
      => /\ b_ret.status = "ok"
         /\ b_ret.addr \in {b_region.start,
                            b_region.start + order_to_size(b_ret.order)}

\* C11: whenever map_single_page(V, F, flags) has returned Ok, V is page
\* aligned, page_is_mapped(V) is true and the walk from the active root for V
\* ends at a leaf holding F with the given flags plus PRESENT, whatever the
\* tables held before (absent or present intermediates, absent or present leaf)
C11_MapThenMapped ==
    (p_ret.op = "map" /\ p_ret.res = "Ok") =>
        /\ p_ret.virt % FrameSize = 0
        /\ page_is_mapped(ptab, p_ret.virt)
        /\ leaf_entry(ptab, p_ret.virt)
              = Entry(p_ret.frame, p_ret.flags \cup {PRESENT})

\* a map without PRESENT in its flags has replaced the leaf the bootloader
\* left present at the start of the mmap area
C11_Witness ==
    /\ p_ret.op = "map" /\ p_ret.res = "Ok"
    /\ p_ret.virt = MmapStart
    /\ PRESENT \notin p_ret.flags
    /\ BootP1 \in DOMAIN ptab
    /\ ptab[BootP1][0].addr = DeviceFrame

\* the tables a walk from the active root can reach through entries whose
\* frame() reads: the root, then the level 3, 2 and 1 tables
NextTables(pt, tables) ==
    { Tab(pt, r[1])[r[2]].addr :
        r \in { q \in tables \X (0..(TableEntries - 1)) :
                  entry_frame(Tab(pt, q[1])[q[2]]).ok } }
ReachableTables(pt) ==
    LET l3 == NextTables(pt, {Cr3})
        l2 == NextTables(pt, l3)
        l1 == NextTables(pt, l2)
    IN  {Cr3} \cup l3 \cup l2 \cup l1

\* C12: in map_single_page, whenever an unused P4, P3 or P2 entry is filled,
\* the new table frame holds only zero entries at the moment the parent entry
\* is written to point at it, and every table a walk from the active root can
\* reach has been written (none holds what its frame's last user left)
C12_ZeroedBeforeLinked ==
    /\ ~stale_link
    /\ ReachableTables(ptab) \subseteq DOMAIN ptab

\* a map has filled an unused entry with a table frame taken from the frame
\* allocator, and the walk reaches that table
C12_Witness ==
    /\ p_ret.op = "map" /\ p_ret.res = "Ok"
    /\ \E t \in f_out : /\ t.by = "global"
                         /\ t.addr \in ReachableTables(ptab)
                         /\ t.addr \in DOMAIN ptab

\* is_mapped(a): a is an address the CPU translates (VirtAddr::new takes it
\* as it is) and its walk ends at a present leaf
IsMapped(pt, a) ==
    /\ a < VWord
    /\ Canonical(a)
    /\ page_is_mapped(pt, a)

\* the pages of [addr, addr + ceil(length / 4096) * 4096)
PagesOf(addr, length) ==
    { addr + k * 4096 : k \in 0..(((length + 4095) \div 4096) - 1) }

\* the frames handed out by the allocators so far
FramesOut(out) == { t.addr : t \in out }

\* C13: sys_mmap(0, length, prot) with length > 0 either fails with an error
\* value or returns a multiple of 4096 such that every page of
\* [addr, addr + ceil(length / 4096) * 4096) is mapped, each to a distinct
\* frame allocated by this call; from every reachable value of the cursor
C13_MmapMapsRange ==
    [][ (p_ret'.op = "mmap" /\ nops' = nops + 1
         /\ p_ret'.virt = 0 /\ p_ret'.len > 0) =>
          \/ p_ret'.res \in {"InvalidArgument", "NoMemory"}
          \/ /\ p_ret'.res = "Ok"
             /\ p_ret'.ret % 4096 = 0
             /\ \A a \in PagesOf(p_ret'.ret, p_ret'.len) :
                  /\ IsMapped(ptab', a)
                  /\ leaf_entry(ptab', a).addr
                        \in FramesOut(f_out') \ FramesOut(f_out)
             /\ \A a, b \in PagesOf(p_ret'.ret, p_ret'.len) :
                  a # b => leaf_entry(ptab', a).addr # leaf_entry(ptab', b).addr
      ]_vars

\* C14: when a successful sys_mmap has returned addr for length, the
\* sys_munmap(addr, length) that follows returns success and page_is_mapped is
\* false for every page of [addr, addr + ceil(length / 4096) * 4096)
C14_MunmapUnmaps ==
    [][ (/\ p_ret.op = "mmap" /\ p_ret.res = "Ok"
         /\ p_ret'.op = "munmap" /\ nops' = nops + 1
         /\ p_ret'.virt = p_ret.ret /\ p_ret'.len = p_ret.len) =>
          /\ p_ret'.res = "Ok"
          /\ \A a \in PagesOf(p_ret.ret, p_ret.len) : ~page_is_mapped(ptab', a)
      ]_vars

\* the upper-half indices of a root table (256..511 on the machine)
UpperHalf == (TableEntries \div 2)..(TableEntries - 1)

\* C15: every root table made by create_process_page_table has entries
\* 0..255 zero and entries 256..511 equal to the active root's entries at the
\* moment of its call, and keeps them whatever is mapped afterwards; the call
\* leaves the active root table as it was
C15_ProcessRootIsUpperHalfCopy ==
    [][ /\ \A p \in procs' :
             /\ p.root \in DOMAIN ptab'
             /\ \A i \in 0..(TableEntries - 1) :
                  ptab'[p.root][i] = IF i \in UpperHalf THEN p.upper[i]
                                     ELSE ZeroEntry
        /\ (p_ret'.op = "create" /\ nops' = nops + 1) =>
             /\ Tab(ptab', Cr3) = Tab(ptab, Cr3)
             /\ p_ret'.res = "Ok" =>
                  \E p \in procs' :
                     /\ p.root = p_ret'.frame
                     /\ \A i \in UpperHalf : p.upper[i] = Tab(ptab, Cr3)[i]
      ]_vars

\* a process root was made and a later map changed an upper-half entry of the
\* active root
C15_Witness ==
    \E p \in procs :
       /\ p.root \in DOMAIN ptab
       /\ \E i \in UpperHalf : /\ Tab(ptab, Cr3)[i] # p.upper[i]
                                /\ ptab[p.root][i] = p.upper[i]
                                /\ ~is_unused(p.upper[TableEntries - 1])

\* the contexts between a successful acquire of lock l and its release
Holders(l) ==
    { c \in LockCtxs :
        \E i \in 1..Len(lk_stack[c]) :
           lk_stack[c][i].lock = l /\ lk_stack[c][i].at \in {"body", "drop"} }

\* the contexts waiting in SpinLock::lock for lock l
Waiters(l) ==
    { c \in LockCtxs :
        /\ Len(lk_stack[c]) > 0
        /\ Top(c).lock = l /\ Top(c).at \in {"cas", "spin"} }

\* C16: SpinLock, contexts interleaved at each atomic step: at most one
\* context is inside the closure of with_lock on the same lock, the flag word
\* is 1 exactly while some context is between its acquire and its release,
\* and a context whose call has returned holds no lock
C16_MutualExclusion ==
    /\ \A l \in SpinLocks :
          /\ Cardinality(Holders(l)) <= 1
          /\ lk_locked[l] = 1 <=> Holders(l) # {}
          /\ lk_locked[l] \in {0, 1}
    /\ \A c \in LockCtxs : ~Active(c) => lk_stack[c] = << >>

\* a context has returned from with_lock on a lock that another context,
\* which was spinning on it, now holds while a third one waits
C16_Witness ==
    \E l \in SpinLocks :
       /\ Holders(l) # {}
       /\ Waiters(l) # {}
       /\ \E c \in LockCtxs : ~Active(c) /\ nops = MaxLockCalls

\* the interrupt handler waits for a lock that the code it interrupted holds
HandlerBlocked ==
    /\ Active("irq")
    /\ "irq" \in Waiters(Top("irq").lock)
    /\ "main" \in Holders(Top("irq").lock)

\* C17: once an interrupt handler that allocates waits for a lock that the
\* interrupted code holds, it waits for that lock in every later state (its
\* acquisition never succeeds) and the interrupted code takes no step
C17_HandlerNeverAcquires ==
    [][ HandlerBlocked =>
          /\ HandlerBlocked'
          /\ Top("irq").lock = Top("irq")'.lock
          /\ Len(lk_stack'["irq"]) = Len(lk_stack["irq"])
          /\ lk_stack'["main"] = lk_stack["main"]
          /\ lk_call'["main"] = lk_call["main"]
          /\ lk_call'["irq"] = lk_call["irq"]
      ]_vars

\* the handler spins on the kernel heap's lock, which the interrupted code
\* took on its way into an allocation
C17_Witness ==
    /\ HandlerBlocked
    /\ Top("irq").at = "spin"
    /\ lk_call["irq"].by = "LockedHeap"
    /\ lk_call["main"].by = "LockedHeap"

\* C18: kernel heap: an allocate that misses its class list or bypasses the
\* classes performs the fallback allocation under the locks it held at the
\* class lookup (LockedHeap's and FixedSizeBlockAllocator's) and takes no
\* other lock
C18_FallbackTakesNoLock ==
    \A c \in LockCtxs :
       lk_call[c].fallback =>
          \A i \in 1..Len(lk_stack[c]) : lk_stack[c][i].lock \in {"heap", "fsb"}

\* the error validate_region is to give: null start first, then empty size,
\* then a region that runs past the end of the address space
ExpectedValidation(start, size) ==
    IF start = 0 THEN "InvalidAddress"
    ELSE IF size = 0 THEN "InvalidSize"
    ELSE IF start + size >= Word THEN "Overflow"
    ELSE "Ok"

\* the errors of the regions an init call received that are rejected
RejectedWith(ret) ==
    ({ExpectedValidation(ret.start, ret.size)}
       \cup (IF ret.kind = "stackheap"
             THEN {ExpectedValidation(ret.hstart, ret.hsize)} ELSE {}))
      \ {"Ok"}

\* C19: validate_region(start, size) gives InvalidAddress when start = 0,
\* otherwise InvalidSize when size = 0, otherwise Overflow when start + size
\* overflows the word, otherwise Ok, and changes no allocator; an init of an
\* uninitialised allocator that receives a rejected region returns that
\* region's error and leaves the allocator uninitialised
C19_RejectedRegionStaysUninitialised ==
    [][ /\ (i_ret'.op = "validate" /\ nops' = nops + 1) =>
             /\ i_ret'.res = ExpectedValidation(i_ret'.start, i_ret'.size)
             /\ i_allocs' = i_allocs
        /\ (/\ i_ret'.op = "init" /\ nops' = nops + 1
            /\ ~i_ret'.was
            /\ RejectedWith(i_ret') # {}) =>
             /\ i_ret'.res \in RejectedWith(i_ret')
             /\ ~Initialised(i_allocs', i_ret'.kind)
      ]_vars

\* C20: a second initialisation fails fast: memory::init called when it has
\* already run returns an error and leaves the frame cursor, the heap's free
\* lists and the frames and blocks handed out unchanged
C20_SecondInitFailsFast ==
    [][ (f_ret'.op = "init_again" /\ nops' = nops + 1) =>
          /\ f_ret'.status # "Ok"
          /\ g_next' = g_next
          /\ <<ll_init, ll_head, list_heads, mem>>'
                = <<ll_init, ll_head, list_heads, mem>>
          /\ <<f_out, hlive>>' = <<f_out, hlive>>
      ]_vars

\* the break the sys_brk of one module keeps
BreakOf(by, bm, bh) == IF by = "memory" THEN bm ELSE bh

\* a step that is a call of sys_brk
BrkStep == k_ret'.op = "brk" /\ nops' = nops + 1

\* the target lies outside [HEAP_START, HEAP_START + HEAP_SIZE]
OutsideWindow(addr) == addr < HEAP_START \/ addr > HEAP_START + HEAP_SIZE

\* C21: sys_brk(addr) with addr # 0 outside the heap window leaves the break
\* unchanged, maps and unmaps no page, and returns the current break;
\* sys_brk(0) returns the current break and changes nothing
C21_BrkOutsideWindowRejected ==
    [][ (BrkStep /\ (k_ret'.addr = 0 \/ OutsideWindow(k_ret'.addr))) =>
          /\ k_ret'.res = "Ok"
          /\ k_ret'.ret = BreakOf(k_ret'.by, brk_m, brk_h)
          /\ <<brk_m, brk_h>>' = <<brk_m, brk_h>>
          /\ <<ptab, s_next, g_next, f_out>>' = <<ptab, s_next, g_next, f_out>>
      ]_vars

\* the pages that hold a byte of [from, to)
PagesCovering(from, to) ==
    { a \in from..(to - 1) : a % FrameSize = 0 \/ a = from }

\* the leaf of the page holding address a is present, writable and
\* user-accessible
MappedUserWritable(pt, a) ==
    brk_flags \subseteq leaf_entry(pt, a - (a % FrameSize)).flags

\* C22: the dispatcher's sys_brk(addr) with addr inside the heap window and
\* above the current break b succeeds from every reachable b while frames
\* are available: it returns addr, sets the break to addr, and every page
\* newly covered by [b, addr) is mapped user-accessible and writable
C22_BrkGrowsFromAnyBreak ==
    [][ (/\ BrkStep /\ k_ret'.by = "handlers"
         /\ ~OutsideWindow(k_ret'.addr)
         /\ k_ret'.addr > brk_h
         /\ simple_allocate_frame(PageSt).ok) =>
          /\ k_ret'.res = "Ok"
          /\ k_ret'.ret = k_ret'.addr
          /\ brk_h' = k_ret'.addr
          /\ \A a \in PagesCovering(brk_h, k_ret'.addr) :
                MappedUserWritable(ptab', a)
      ]_vars

\* a step that is a call of memory::sys_mmap which returned NoMemory
MmapNoMemory ==
    /\ p_ret'.op = "mmap" /\ nops' = nops + 1
    /\ p_ret'.by = "memory"
    /\ p_ret'.res = "NoMemory"

\* C23: when frame allocation or mapping fails at page i of a multi-page
\* memory::sys_mmap, the call returns NoMemory with pages 0..i-1 of the
\* request still mapped to their frames, the frames it consumed still
\* consumed, and the virtual-address cursor still advanced by the whole
\* request
C23_FailedMmapKeepsEarlierPages ==
    [][ MmapNoMemory =>
          /\ \A i \in DOMAIN p_ret'.pages :
                /\ p_ret'.pages[i].virt
                     = VirtAddr_new((IF p_ret'.virt # 0
                                     THEN p_ret'.virt - (p_ret'.virt % 4096)
                                     ELSE mmap_next) + (i - 1) * FrameSize).va
                /\ IsMapped(ptab', p_ret'.pages[i].virt)
                /\ leaf_entry(ptab', p_ret'.pages[i].virt).addr
                     = p_ret'.pages[i].frame
                /\ [by |-> "global", addr |-> p_ret'.pages[i].frame] \in f_out'
                /\ p_ret'.pages[i].frame < g_next'
          /\ g_next' >= g_next
          /\ f_out \subseteq f_out'
          /\ mmap_next' = IF p_ret'.virt # 0 THEN mmap_next
                          ELSE (mmap_next + 4096 * ((p_ret'.len + 4095) \div 4096))
                                 % VWord
      ]_vars

\* a memory::sys_mmap at the cursor has failed at a page after the first
C23_Witness ==
    /\ p_ret.op = "mmap" /\ p_ret.by = "memory" /\ p_ret.res = "NoMemory"
    /\ p_ret.virt = 0
    /\ Len(p_ret.pages) >= 2
    /\ \A i \in DOMAIN p_ret.pages : IsMapped(ptab, p_ret.pages[i].virt)

\* one of the P4, P3 and P2 entries on the walk path of page v carries
\* NO_EXECUTE
PathNoExecute(pt, v) ==
    LET e4 == Tab(pt, Cr3)[p_index(v, 4)] IN
    \/ NO_EXECUTE \in e4.flags
    \/ /\ entry_frame(e4).ok
       /\ LET e3 == Tab(pt, e4.addr)[p_index(v, 3)] IN
          \/ NO_EXECUTE \in e3.flags
          \/ /\ entry_frame(e3).ok
             /\ NO_EXECUTE \in Tab(pt, e3.addr)[p_index(v, 2)].flags

\* the pages map_single_page is called for
MapPages == {v \in MapVirts : v % FrameSize = 0}

\* C24: after any sequence of successful map_single_page calls, no P4, P3 or
\* P2 entry on the walk path of a leaf installed without NO_EXECUTE carries
\* NO_EXECUTE, whatever the intermediate entries carried before: a successful
\* call for flags without NO_EXECUTE leaves the path of its page clear, and
\* no successful call puts NO_EXECUTE on a path that was clear
C24_ExecutablePathHasNoNoExecute ==
    [][ (p_ret'.op = "map" /\ nops' = nops + 1 /\ p_ret'.res = "Ok") =>
          /\ NO_EXECUTE \notin p_ret'.flags =>
               /\ ~PathNoExecute(ptab', p_ret'.virt)
               /\ NO_EXECUTE \notin leaf_entry(ptab', p_ret'.virt).flags
               /\ page_is_mapped(ptab', p_ret'.virt)
          /\ \A v \in MapPages :
               ~PathNoExecute(ptab, v) => ~PathNoExecute(ptab', v)
      ]_vars

\* a page has been mapped without NO_EXECUTE below the P3 entry that the
\* bootloader left with NO_EXECUTE, and the entry has lost it
C24_Witness ==
    /\ p_ret.op = "map" /\ p_ret.res = "Ok"
    /\ NO_EXECUTE \notin p_ret.flags
    /\ p_index(p_ret.virt, 4) = 0 /\ p_index(p_ret.virt, 3) = 0
    /\ BootP3 \in DOMAIN ptab
    /\ ptab[BootP3][0] = Entry(BootP2, parent_flags)
    /\ ~PathNoExecute(ptab, p_ret.virt)

\* the end of a region once it is capped at the kernel's load address
CappedEnd(region) == IF region.end < KernelStart THEN region.end ELSE KernelStart

\* the Usable regions of a map that start in [0x100000, 0x1000000)
LowCandidates(bm) ==
    { i \in DOMAIN bm : /\ bm[i].usable
                        /\ bm[i].start >= LowWindowMin
                        /\ bm[i].start < KernelStart
                        /\ CappedEnd(bm[i]) > bm[i].start }

\* C25: for every boot memory map for which memory::init succeeds, the frame
\* window [PHYSICAL_MEMORY_START, PHYSICAL_MEMORY_END) holds no address of a
\* region the map reports as not Usable (the kernel image is such a region);
\* the largest Usable region starting in [0x100000, 0x1000000), capped at
\* 0x1000000, is preferred, and the fixed window 0x1800000..0x1A00000 is used
\* only when there is no such region
C25_WindowAvoidsReservedRegions ==
    memory_initialized =>
      /\ \A i \in DOMAIN boot_map :
            ~boot_map[i].usable =>
               (g_end <= boot_map[i].start \/ g_start >= boot_map[i].end)
      /\ IF LowCandidates(boot_map) # {}
         THEN \E i \in LowCandidates(boot_map) :
                 /\ g_start = boot_map[i].start
                 /\ g_end = CappedEnd(boot_map[i])
                 /\ \A j \in LowCandidates(boot_map) :
                       CappedEnd(boot_map[j]) - boot_map[j].start
                          <= g_end - g_start
         ELSE g_start = FallbackStart /\ g_end = FallbackEnd

\* C26: SlabAllocator<SIZE, ALIGN>: for every span registered with add_slab
\* and every request with size <= SIZE and power-of-two align <= ALIGN, a
\* non-null address returned by alloc is a multiple of align
C26_SlabReturnsAligned ==
    (/\ sl_ret.op = "alloc"
     /\ sl_ret.addr # 0
     /\ sl_ret.size <= sl_size
     /\ sl_ret.align <= sl_align) =>
       sl_ret.addr % sl_ret.align = 0

\* a zero-size request made of the bump or stack allocator, of the kernel
\* heap (free list under fixed-size blocks), and of the slab allocator
ZeroSizeCursorAlloc ==
    a_ret'.op = "alloc" /\ a_ret'.size = 0 /\ nops' = nops + 1 /\ mode = "seq"
ZeroSizeHeapAlloc ==
    hret'.op = "alloc" /\ hret'.size = 0 /\ nops' = nops + 1
       /\ mode \in HeapModes
ZeroSizeSlabAlloc ==
    sl_ret'.op = "alloc" /\ sl_ret'.size = 0 /\ nops' = nops + 1
       /\ mode = "slab"

\* C27: every heap allocator answers a zero-size request in the same way:
\* alloc returns null and leaves the cursor and the free lists unchanged
C27_ZeroSizeReturnsNull ==
    [][ /\ ZeroSizeCursorAlloc =>
             a_ret'.addr = 0 /\ a_cur' = a_cur /\ a_blocks' = a_blocks
        /\ ZeroSizeHeapAlloc =>
             /\ hret'.addr = 0
             /\ <<ll_head, list_heads, mem, hlive>>'
                   = <<ll_head, list_heads, mem, hlive>>
        /\ ZeroSizeSlabAlloc =>
             /\ sl_ret'.addr = 0
             /\ <<sl_head, sl_mem, sl_live>>' = <<sl_head, sl_mem, sl_live>>
      ]_vars

\* a sys_mmap of either module has returned Ok
MmapOk ==
    /\ p_ret'.op = "mmap" /\ nops' = nops + 1
    /\ p_ret'.res = "Ok"

\* C28: for every prot value, each leaf entry installed by a successful
\* sys_mmap is present, writable exactly when prot has the write bit (0x2)
\* and carries NO_EXECUTE exactly when prot lacks the execute bit (0x4); with
\* the execute bit set, no P4, P3 or P2 entry on the walk path of a mapped
\* page carries NO_EXECUTE
C28_MmapLeafFollowsProt ==
    [][ MmapOk =>
          \A i \in DOMAIN p_ret'.pages :
             LET v == p_ret'.pages[i].virt
                 e == leaf_entry(ptab', v)
             IN  /\ PRESENT \in e.flags
                 /\ e.addr = p_ret'.pages[i].frame
                 /\ (WRITABLE \in e.flags) <=> prot_has(p_ret'.flags, 2)
                 /\ (NO_EXECUTE \in e.flags) <=> ~prot_has(p_ret'.flags, 4)
                 /\ prot_has(p_ret'.flags, 4) => ~PathNoExecute(ptab', v)
      ]_vars

\* an allocate call on the kernel heap that LinkedListAllocator::alloc served
LLAllocStep ==
    /\ HeapAllocStep
    /\ hret'.src \in {"carve", "fallback"}
    /\ hret'.status = "ok" /\ hret'.addr # 0

\* the bytes LinkedListAllocator::alloc took for the call
LLTaken ==
    IF hret'.src = "carve"
    THEN align_up(Max(BLOCK_SIZES[hret'.idx], ListNodeSize), BLOCK_SIZES[hret'.idx])
    ELSE align_up(Max(hret'.size, ListNodeSize), hret'.align)

\* a leftover piece of n bytes can be kept: it is empty or holds a header
PieceKept(n) == n = 0 \/ n >= ListNodeSize

\* C29: LinkedListAllocator::alloc accepts a free block for a request only if
\* both pieces of the block left over after carving out the aligned request,
\* the one before the aligned start and the one after the request's end, are
\* empty or at least size_of(ListNode) bytes
C29_LeftoversHoldAHeader ==
    [][ LLAllocStep =>
          LET fl == FreeListOf(ll_head, mem, {})
              holds == {i \in DOMAIN fl :
                          /\ fl[i][1] <= hret'.addr
                          /\ hret'.addr + LLTaken <= fl[i][1] + fl[i][2]}
          IN  /\ holds # {}
              /\ \A i \in holds :
                    /\ PieceKept(hret'.addr - fl[i][1])
                    /\ PieceKept(fl[i][1] + fl[i][2] - (hret'.addr + LLTaken))
      ]_vars

\* a free on the kernel heap that LinkedListAllocator::dealloc served
LLFreeStep ==
    /\ nops' # nops
    /\ hret'.op = "free" /\ hret'.idx = 0
    /\ hret'.addr # 0

\* C30: LinkedListAllocator::free adds exactly one node, the freed block with
\* size align_up(max(size, size_of(ListNode)), align), at the head of the
\* free list and changes the start and size of no other node, also when the
\* freed block is adjacent to a free node: nodes are never merged
C30_FreePushesOneNode ==
    [][ LLFreeStep =>
          FreeListOf(ll_head', mem', {})
            = << <<hret'.addr,
                   align_up(Max(hret'.size, ListNodeSize), hret'.align)>> >>
              \o FreeListOf(ll_head, mem, {})
      ]_vars

\* the bytes on the fallback's free list: the sizes of its nodes added up
RECURSIVE SumOfSizes(_)
SumOfSizes(fl) == IF fl = << >> THEN 0 ELSE fl[1][2] + SumOfSizes(Tail(fl))

FreeBytes(head, m) == SumOfSizes(FreeListOf(head, m, {}))

\* an allocate call that missed its class list and was carved from the fallback
ClassMissStep ==
    /\ HeapAllocStep
    /\ hret'.src = "carve"
    /\ hret'.status = "ok" /\ hret'.addr # 0

\* C31 as stated: on a class miss the fallback's free bytes decrease by
\* exactly BLOCK_SIZES[idx], for every class including the 8-byte one, and
\* the block is aligned to BLOCK_SIZES[idx]
C31_CarveTakesClassSize ==
    [][ ClassMissStep =>
          /\ FreeBytes(ll_head, mem) - FreeBytes(ll_head', mem')
               = BLOCK_SIZES[hret'.idx]
          /\ hret'.addr % BLOCK_SIZES[hret'.idx] = 0
      ]_vars

\* C31 amended: on a class miss the fallback's free bytes decrease by
\* max(BLOCK_SIZES[idx], size_of(ListNode)), which is 16 for the 8-byte class
\* and BLOCK_SIZES[idx] for every other class, and the block is aligned to
\* BLOCK_SIZES[idx]
C31_CarveTakesAtLeastAHeader ==
    [][ ClassMissStep =>
          /\ FreeBytes(ll_head, mem) - FreeBytes(ll_head', mem')
               = Max(BLOCK_SIZES[hret'.idx], ListNodeSize)
          /\ hret'.addr % BLOCK_SIZES[hret'.idx] = 0
      ]_vars

\* C31 witness: a block of the 8-byte class has been carved from the
\* fallback, and the free node behind it starts 16 bytes after the block
C31_Witness ==
    /\ hret.op = "alloc" /\ hret.src = "carve" /\ hret.status = "ok"
    /\ hret.idx = 1 /\ hret.addr # 0
    /\ ll_head = hret.addr + ListNodeSize

\* the P4, P3 and P2 entries map_single_page walks through for v in tables
\* pt, as <<table, index>> pairs, down to the first entry without a frame
ParentSlots(pt, v) ==
    LET e4 == Tab(pt, Cr3)[p_index(v, 4)] IN
    << <<Cr3, p_index(v, 4)>> >>
    \o (IF ~entry_frame(e4).ok THEN << >>
        ELSE LET e3 == Tab(pt, e4.addr)[p_index(v, 3)] IN
             << <<e4.addr, p_index(v, 3)>> >>
             \o (IF ~entry_frame(e3).ok THEN << >>
                 ELSE << <<e3.addr, p_index(v, 2)>> >>))

\* C32: when map_single_page finds a present P4, P3 or P2 entry that carries
\* NO_EXECUTE while the requested leaf is executable, it changes only the
\* NO_EXECUTE bit of that entry: the frame and every other flag of the entry
\* are the same after the call as before
C32_OnlyNoExecuteCleared ==
    [][ (p_ret'.op = "map" /\ nops' = nops + 1 /\ p_ret'.res = "Ok"
           /\ NO_EXECUTE \notin p_ret'.flags) =>
          LET slots == ParentSlots(ptab, p_ret'.virt) IN
          \A k \in DOMAIN slots :
             LET before == Tab(ptab, slots[k][1])[slots[k][2]]
                 after == Tab(ptab', slots[k][1])[slots[k][2]]
             IN  (PRESENT \in before.flags /\ NO_EXECUTE \in before.flags) =>
                    /\ after.addr = before.addr
                    /\ after.flags = before.flags \ {NO_EXECUTE}
      ]_vars

\* C33: every BuddyAllocator::alloc call in a state reached from init by
\* allocate and free calls returns an address or null; the split loop ends
\* and never indexes free_lists at or beyond MAX_ORDER
C33_BuddyAllocReturns ==
    /\ b_status = "ready"
    /\ b_ret.op = "alloc" =>
          \/ b_ret.status = "ok" /\ b_ret.addr # 0
          \/ b_ret.status = "null" /\ b_ret.addr = 0

\* context t is inside alloc / allocate_frame
InLoop(t) == ctx[t].pc # "idle"

\* the calls that have returned so far
CompletedCalls == c_calls - Cardinality({t \in Ctxs : InLoop(t)})

\* C34: with finitely many competing calls on the retry loops of
\* BumpAllocator::alloc, StackAllocator::alloc and allocate_frame and a fair
\* scheduler, every call returns (an address or failure), and whenever a
\* call is in its loop some call returns later on
C34_RetryLoopsTerminate ==
    /\ \A t \in Ctxs : InLoop(t) ~> ~InLoop(t)
    /\ \A n \in 0..MaxCasCalls :
          (CompletedCalls = n /\ \E t \in Ctxs : InLoop(t))
             ~> CompletedCalls > n

\* the bytes in the ring: written, published by HEAD and not yet released
\* by TAIL
Pending == (rb_head - rb_tail + BUFFER_SIZE) % BUFFER_SIZE

\* the enqueue call in progress drops its byte in this step
DropStep == rb_prod.pc = "tail" /\ rb_prod'.pc = "idle"

\* C35: one producer and one consumer on the byte ring, interleaved at every
\* load and store.  The producer is never blocked and drops its byte only
\* when BUFFER_SIZE - 1 bytes are pending; the bytes dequeue returns are the
\* bytes enqueue did not drop, in enqueue order, none twice, none read from a
\* slot whose write is not finished; with both sides idle and the ring empty
\* every byte that was not dropped has been returned
C35_RingDeliversInOrder ==
    /\ [](/\ Len(rb_out) <= Len(rb_in)
          /\ \A i \in DOMAIN rb_out : rb_out[i] = rb_in[i]
          /\ rb_cons.pc = "store" => rb_cons.sc = rb_in[Len(rb_out) + 1]
          /\ rb_prod.pc # "idle" =>
                ENABLED (EnqLoadTail \/ EnqWrite \/ EnqStoreHead)
          /\ (rb_prod.pc = "idle" /\ rb_cons.pc = "idle" /\ rb_head = rb_tail)
                => rb_out = rb_in)
    /\ [][DropStep => Pending = BUFFER_SIZE - 1]_vars

\* C35 witness: a byte was dropped on a full ring, the indices have wrapped
\* around, and every byte that was accepted has been returned
C35_Witness ==
    /\ rb_prod.pc = "idle" /\ rb_cons.pc = "idle"
    /\ Len(rb_in) < rb_calls
    /\ Len(rb_out) > BUFFER_SIZE
    /\ rb_out = rb_in

\* a call of step on a list that is not empty
StepTaken ==
    /\ sch_tasks # << >>
    /\ sch_next_id' = sch_next_id /\ sch_pc' = sch_pc
    /\ <<sch_tasks, sch_current, sch_ret>>' # <<sch_tasks, sch_current, sch_ret>>

\* the call executed the task at position i of the list, once, and nothing
\* else; a task that returned Completed left the list, any other stayed in
\* place
ExecutedOnly(i) ==
    LET t == sch_tasks[i]
        finished == t.iterations + 1 >= t.runs
    IN  /\ sch_ret' = t.id
        /\ IF finished
           THEN sch_tasks' = remove(sch_tasks, i - 1)
           ELSE /\ Len(sch_tasks') = Len(sch_tasks)
                /\ \A j \in DOMAIN sch_tasks :
                      IF j = i
                      THEN /\ sch_tasks'[j].id = t.id
                           /\ sch_tasks'[j].iterations = t.iterations + 1
                           /\ sch_tasks'[j].state # "Completed"
                      ELSE sch_tasks'[j] = sch_tasks[j]

\* the task with this id is in the list
Listed(id) == \E i \in DOMAIN sch_tasks : sch_tasks[i].id = id

\* C36: for spawned tasks that each return Completed after finitely many
\* executions, every step on a non-empty list executes exactly one task, the
\* one the round has reached; a task that returns Completed is removed in
\* that step, so the list never holds a Completed task; under run_all no
\* task stays in the list forever, each is executed until it returns
\* Completed; and run_all returns with task_count() = 0
C36_RunAllTerminates ==
    /\ [](\A i \in DOMAIN sch_tasks : sch_tasks[i].state # "Completed")
    /\ [][StepTaken =>
            ExecutedOnly((sch_current % Len(sch_tasks)) + 1)]_schedvars
    /\ \A id \in 1..MaxTasks : (sch_pc = "run" /\ Listed(id)) ~> ~Listed(id)
    /\ (sch_pc = "run") ~> (sch_pc = "done" /\ Len(sch_tasks) = 0)

\* C36 witness: run_all has returned after four tasks were spawned, the
\* last step having run a task that was executed more than once
C36_Witness ==
    /\ sch_pc = "done"
    /\ sch_tasks = << >>
    /\ sch_next_id = MaxTasks + 1
    /\ sch_ret = 1

\* C37: in every state of the kernel heap reached by allocate and free
\* calls, every node of the fallback's free list has size >=
\* size_of(ListNode), and the header bytes of a free node overlap no live
\* allocation
C37_FreeNodesHoldTheirHeader ==
    hstatus = "ready" =>
      LET fl == FreeListOf(ll_head, mem, {}) IN
      \A i \in DOMAIN fl :
         /\ fl[i][2] >= ListNodeSize
         /\ \A b \in hlive :
               ~Overlap(fl[i][1], ListNodeSize, b.addr, b.size)

\* C38: every non-null address returned by BumpAllocator::alloc or
\* StackAllocator::alloc lies in [region start, region end - size], also
\* when the call runs while init is between two of its stores
C38_ReturnsInsideRegionDuringInit ==
    \A r \in c_out :
       /\ init_run.pc # "new"
       /\ init_run.start <= r.addr
       /\ r.addr + r.size <= init_run.start + init_run.size

\* C39: after any sequence of successful calls of the dispatcher's sys_brk,
\* growing and shrinking, to aligned and unaligned targets, every page that
\* holds a byte of [HEAP_START, break) is mapped
C39_PagesBelowBreakMapped ==
    p_status = "ready" =>
       \A a \in PagesCovering(HEAP_START, brk_h) :
          IsMapped(ptab, a - (a % FrameSize))

\* the pages of the range that a call of sys_mmap without a hint returned
NoHintMmapOk(r) ==
    r.op = "mmap" /\ r.by = "memory" /\ r.virt = 0 /\ r.res = "Ok"

\* C40: the ranges returned by calls of sys_mmap without a hint are disjoint
\* and increase from call to call, and a call of sys_pstart that follows one
\* leaves the leaf entry of every page of the returned range as it was
C40_MmapRangesStayTheirOwn ==
    [][ /\ (NoHintMmapOk(p_ret) /\ NoHintMmapOk(p_ret') /\ nops' = nops + 1) =>
              p_ret'.ret >= p_ret.ret + 4096 * ((p_ret.len + 4095) \div 4096)
        /\ (NoHintMmapOk(p_ret) /\ p_ret'.op = "pstart" /\ nops' = nops + 1) =>
              \A i \in DOMAIN p_ret.pages :
                 leaf_entry(ptab', p_ret.pages[i].virt)
                    = leaf_entry(ptab, p_ret.pages[i].virt) ]_vars

====
